---- MODULE Spec2Model ----
(***************************************************************************)
(* Daily plan scoping of the personal dashboard: scopeToWorkday, the      *)
(* POST /api/daily-plan handler and the dashboard's generateDailyPlan.    *)
(*                                                                         *)
(* Hours are counted in half hours: 0.5h is 1, 1h is 2, 2h is 4, 4h is 8, *)
(* 8h is 16, and a budget of 6h is 12.  Every hour value of the program   *)
(* that the model uses is a multiple of 0.5, so sums and comparisons are  *)
(* exact.                                                                  *)
(***************************************************************************)
EXTENDS Integers, Sequences, FiniteSets, TLC

(***************************************************************************)
(* Bounds of the model.                                                    *)
(***************************************************************************)
MaxLen == 4

(* hours an item handed to scopeToWorkday may carry: the oracle's five     *)
(* values, and the zero and negative values a caller can hand in           *)
ScopeHours == {-2, 0, 1, 2, 4, 8, 16}

(* budgets handed to scopeToWorkday: 0.5h, 4h, 6h                          *)
ScopeBudgets == {1, 8, 12}

(* bound on the number of Linear issues the dashboard has fetched *)
MaxIssues == 2

VARIABLES
    (* the arguments and the result of a call of scopeToWorkday *)
    scopeItems, scopeMaxHours, scopeResult, scopeCalled,
    (* Dashboard state: what the two work-item sources returned *)
    actionablePRs, linearIssues,
    (* POST /api/daily-plan: the request body, the handler's position, its  *)
    (* locals estimated and sortedForScoping, and the JSON response         *)
    request, pc, estimated, sortedForScoping, response,
    (* Dashboard state: the custom order of the items of each category, the *)
    (* excluded item ids, the custom hour estimates, the daily plan shown,  *)
    (* and the number of planning requests sent so far                      *)
    itemOrder, excludedItemIds, customHourEstimates,
    dailyPlanItems, dailyPlanTotal, dailyPlanMaxHours, planRuns,
    (* Dashboard state: the calendar events fetched and the ids of the      *)
    (* events selected as meetings of the day                               *)
    calendarEvents, selectedEventIds,
    (* the arguments and the result of a call of one of the pure functions  *)
    (* getCategoryKey, estimateEffort and combineActionableItems            *)
    callArgs, callResult, callDone,
    (* Dashboard state: the selected user, what the callback of a planning  *)
    (* request in flight has closed over, the browser's localStorage, the   *)
    (* time of the last planning run, and the clock new Date() reads        *)
    selectedUser, planClosure, localStorage, dailyPlanLastRun, clock,
    (* Dashboard state: the two responses fetchUserData received last, the  *)
    (* error it shows instead of the items, and the Linear-unavailable flag *)
    (* and whether the fetch of the items is still under way                *)
    (* and the number of fetches of the items that have not been answered   *)
    userData, actionableError, linearUnavailable, actionableLoading, pendingFetches,
    (* whether the browser's storage refuses writes: localStorage.setItem    *)
    (* throws, as it does when the quota is used up or storage is disabled   *)
    setItemThrows,
    (* the check-actions cron: the pairs that the open pull requests GitHub *)
    (* lists make actionable by their labels, author and assignees, whether *)
    (* the user has reviewed pull request 7, the rows of the table          *)
    (* actionable_pr_states, the position and the locals of each run of the *)
    (* handler, and the notifications Slack accepted                        *)
    githubActionable, githubReviewed, actionable_pr_states, cronRun,
    slackNotifications

scopeVars == <<scopeItems, scopeMaxHours, scopeResult, scopeCalled>>

dataVars == <<actionablePRs, linearIssues>>

serverVars == <<request, pc, estimated, sortedForScoping, response>>

clientVars == <<itemOrder, excludedItemIds, customHourEstimates,
                dailyPlanItems, dailyPlanTotal, dailyPlanMaxHours, planRuns>>

calendarVars == <<calendarEvents, selectedEventIds>>

callVars == <<callArgs, callResult, callDone>>

userVars == <<selectedUser, planClosure, localStorage, dailyPlanLastRun, clock,
              userData, actionableError, linearUnavailable, actionableLoading,
              pendingFetches, setItemThrows>>

cronVars == <<githubActionable, githubReviewed, actionable_pr_states, cronRun,
              slackNotifications>>

vars == <<scopeVars, dataVars, serverVars, clientVars, calendarVars, callVars,
          userVars, cronVars>>

(***************************************************************************)
(* Helpers on sequences.                                                   *)
(***************************************************************************)
RECURSIVE SumHours(_, _)
(* sum of the hours of the first n items of s *)
SumHours(s, n) == IF n = 0 THEN 0 ELSE SumHours(s, n - 1) + s[n].hours

(***************************************************************************)
(* scopeToWorkday (lib/openai/client.ts).  The for loop, with its state    *)
(* (selected, totalHours) as accumulators; i is the index of the item the  *)
(* loop is at.                                                             *)
(***************************************************************************)
RECURSIVE ScopeLoopPerItem(_, _, _, _, _)
(* the loop with the budget test on the item's own hours, the running      *)
(* total forgotten                                                         *)
ScopeLoopPerItem(items, maxHours, i, selected, totalHours) ==
    IF i > Len(items) THEN [items |-> selected, totalHours |-> totalHours]
    ELSE IF items[i].hours <= maxHours
         THEN ScopeLoopPerItem(items, maxHours, i + 1,
                               Append(selected, items[i]),
                               totalHours + items[i].hours)
         ELSE IF totalHours = 0
              THEN [items |-> Append(selected, items[i]),
                    totalHours |-> totalHours + items[i].hours]
              ELSE ScopeLoopPerItem(items, maxHours, i + 1, selected, totalHours)

RECURSIVE ScopeLoopNoFirst(_, _, _, _, _)
(* the loop without the else-if branch: an item that does not fit is skipped *)
ScopeLoopNoFirst(items, maxHours, i, selected, totalHours) ==
    IF i > Len(items) THEN [items |-> selected, totalHours |-> totalHours]
    ELSE IF totalHours + items[i].hours <= maxHours
         THEN ScopeLoopNoFirst(items, maxHours, i + 1,
                               Append(selected, items[i]),
                               totalHours + items[i].hours)
         ELSE ScopeLoopNoFirst(items, maxHours, i + 1, selected, totalHours)

RECURSIVE ScopeLoop(_, _, _, _, _)
ScopeLoop(items, maxHours, i, selected, totalHours) ==
    IF i > Len(items) THEN [items |-> selected, totalHours |-> totalHours]
    ELSE IF totalHours + items[i].hours <= maxHours
         THEN ScopeLoop(items, maxHours, i + 1,
                        Append(selected, items[i]),
                        totalHours + items[i].hours)
         ELSE IF totalHours = 0
              THEN (* always include at least one item; break *)
                   [items |-> Append(selected, items[i]),
                    totalHours |-> totalHours + items[i].hours]
              ELSE ScopeLoop(items, maxHours, i + 1, selected, totalHours)

RECURSIVE ScopeLoopStop(_, _, _, _, _)
(* the loop that stops at the first item that does not fit *)
ScopeLoopStop(items, maxHours, i, selected, totalHours) ==
    IF i > Len(items) THEN [items |-> selected, totalHours |-> totalHours]
    ELSE IF totalHours + items[i].hours <= maxHours
         THEN ScopeLoopStop(items, maxHours, i + 1,
                            Append(selected, items[i]),
                            totalHours + items[i].hours)
         ELSE IF totalHours = 0
              THEN [items |-> Append(selected, items[i]),
                    totalHours |-> totalHours + items[i].hours]
              ELSE [items |-> selected, totalHours |-> totalHours]

scopeToWorkdayStop(items, maxHours) == ScopeLoopStop(items, maxHours, 1, <<>>, 0)

(* scopeToWorkday reporting a total that is capped at the budget *)
scopeToWorkdayCappedTotal(items, maxHours) ==
    LET result == ScopeLoop(items, maxHours, 1, <<>>, 0) IN
    [items |-> result.items,
     totalHours |-> IF result.totalHours > maxHours THEN maxHours
                    ELSE result.totalHours]

scopeToWorkdayPerItem(items, maxHours) == ScopeLoopPerItem(items, maxHours, 1, <<>>, 0)

scopeToWorkdayNoFirst(items, maxHours) == ScopeLoopNoFirst(items, maxHours, 1, <<>>, 0)

scopeToWorkday(items, maxHours) == ScopeLoop(items, maxHours, 1, <<>>, 0)

(* the result variable before the call *)
NoResult == [items |-> <<>>, totalHours |-> 0]

(***************************************************************************)
(* Work-item records.  A pull request is ActionablePRData: pr.id is its    *)
(* GitHub id (always positive), pr.html_url a code for its URL.  An issue  *)
(* is LinearIssueData: attachment is the URL code of its first attachment  *)
(* that points to a GitHub pull request, 0 when it has none.  A missing    *)
(* pr or linearIssue of an item is the null record below: its id is 0 or   *)
(* "", which JavaScript's ?. || and ? : treat as they treat undefined.     *)
(***************************************************************************)
NullPr == [id |-> 0, html_url |-> 0, draft |-> FALSE,
           additions |-> 0, deletions |-> 0, changed_files |-> 0]

NullIssue == [id |-> "", identifier |-> "", priority |-> 0, priorityLabel |-> "",
              stateName |-> "", stateType |-> "", attachment |-> 0,
              blockedByRelation |-> FALSE]

(* the pull requests a fetch can return, oldest first *)
PRCatalogue ==
    << [pr |-> [id |-> 1, html_url |-> 1, draft |-> FALSE,
                additions |-> 40, deletions |-> 10, changed_files |-> 2],
        reasonLabel |-> "Review Needed"],
       [pr |-> [id |-> 2, html_url |-> 2, draft |-> FALSE,
                additions |-> 1200, deletions |-> 300, changed_files |-> 20],
        reasonLabel |-> "Changes Requested"] >>

(* the issues a fetch can return *)
IssueCatalogue ==
    << [id |-> "L1", identifier |-> "ENG-1", priority |-> 1, priorityLabel |-> "Urgent",
        stateName |-> "In Progress", stateType |-> "started", attachment |-> 1,
        blockedByRelation |-> FALSE],
       [id |-> "L2", identifier |-> "ENG-2", priority |-> 1, priorityLabel |-> "Urgent",
        stateName |-> "Todo", stateType |-> "unstarted", attachment |-> 0,
        blockedByRelation |-> FALSE],
       [id |-> "L3", identifier |-> "ENG-3", priority |-> 2, priorityLabel |-> "High",
        stateName |-> "In Progress", stateType |-> "started", attachment |-> 0,
        blockedByRelation |-> FALSE],
       [id |-> "L4", identifier |-> "ENG-4", priority |-> 4, priorityLabel |-> "Low",
        stateName |-> "In Progress", stateType |-> "started", attachment |-> 0,
        blockedByRelation |-> FALSE],
       [id |-> "L5", identifier |-> "ENG-5", priority |-> 0, priorityLabel |-> "No priority",
        stateName |-> "Todo", stateType |-> "unstarted", attachment |-> 0,
        blockedByRelation |-> FALSE],
       [id |-> "L6", identifier |-> "ENG-6", priority |-> 1, priorityLabel |-> "Urgent",
        stateName |-> "Todo", stateType |-> "unstarted", attachment |-> 0,
        blockedByRelation |-> FALSE] >>

(* String(pr.id) and `pr-${pr.id}` for the ids of the catalogue *)
String(n) == <<"1", "2">>[n]

PrTaskId(n) == <<"pr-1", "pr-2">>[n]

(* the subsequence of cat at the indices of set idx, in catalogue order *)
RECURSIVE Pick(_, _, _)
Pick(cat, idx, i) ==
    IF i > Len(cat) THEN <<>>
    ELSE IF i \in idx THEN <<cat[i]>> \o Pick(cat, idx, i + 1)
         ELSE Pick(cat, idx, i + 1)

FetchedPRs == { SubSeq(PRCatalogue, 1, n) : n \in 0..Len(PRCatalogue) }

FetchedIssues ==
    { Pick(IssueCatalogue, idx, 1) :
        idx \in { x \in SUBSET (1..Len(IssueCatalogue)) : Cardinality(x) <= MaxIssues } }

(* a function on 1..n as the tuple of its values: the same sequence, held  *)
(* as an array rather than recomputed at every access                      *)
Tuple(f) == f \o <<>>

(* the elements of s, each at its place *)
Placed(s, place) == Tuple([p \in 1..Len(s) |-> s[CHOOSE i \in 1..Len(s) : place[i] = p]])

(***************************************************************************)
(* Array.prototype.sort with a comparator cmp that is a consistent weak    *)
(* order: the sort is stable, so an element's place is the number of       *)
(* elements that compare before it or compare equal and precede it.        *)
(***************************************************************************)
SortWith(s, cmp(_, _)) ==
    LET before(i) == { j \in 1..Len(s) :
                          LET c == cmp(s[j], s[i]) IN c < 0 \/ (c = 0 /\ j < i) }
    IN  Placed(s, Tuple([i \in 1..Len(s) |-> Cardinality(before(i)) + 1]))

(* Array.prototype.map *)
Map(s, f(_)) == Tuple([i \in 1..Len(s) |-> f(s[i])])

(* the set of the elements of a sequence *)
Range(s) == { s[i] : i \in 1..Len(s) }

(***************************************************************************)
(* combineActionableItems (app/page.tsx)                                   *)
(***************************************************************************)
(* linearByPrUrl.get(url): the last issue of the list whose attachment is  *)
(* url, since Map.set overwrites; NullIssue when there is none             *)
LinearByPrUrl(issues, url) ==
    IF \E i \in 1..Len(issues) : issues[i].attachment # 0 /\ issues[i].attachment = url
    THEN LET last == CHOOSE i \in 1..Len(issues) :
                        /\ issues[i].attachment = url
                        /\ \A j \in (i + 1)..Len(issues) : issues[j].attachment # url
         IN issues[last]
    ELSE NullIssue

(* linkedPRUrls: the attachment URL of every issue that has one *)
LinkedPRUrls(issues) ==
    { issues[i].attachment : i \in { j \in 1..Len(issues) : issues[j].attachment # 0 } }

(* stateName.toLowerCase() for the state names of a Linear workspace *)
ToLowerCase(name) ==
    CASE name = "In Progress" -> "in progress"
      [] name = "Todo" -> "todo"
      [] name = "In Review" -> "in review"
      [] name = "Blocked" -> "blocked"
      [] name = "Stale" -> "stale"
      [] name = "Canceled" -> "canceled"
      [] OTHER -> name

(* stateName.includes("review"), stateName.includes("blocked") *)
IncludesReview(lower) == lower \in {"in review"}

IncludesBlocked(lower) == lower \in {"blocked"}

(* priorityOrder[issue.priority] ?? 5 *)
PriorityRank(priority) ==
    CASE priority = 1 -> 0
      [] priority = 2 -> 1
      [] priority = 3 -> 2
      [] priority = 4 -> 3
      [] priority = 0 -> 4
      [] OTHER -> 5

(* the item pushed for a pull request *)
PrItem(prData, issues) ==
    LET linkedLinear == LinearByPrUrl(issues, prData.pr.html_url) IN
    [type |-> IF linkedLinear # NullIssue THEN "pr_with_linear" ELSE "pr",
     sortPriority |-> IF linkedLinear # NullIssue /\ linkedLinear.priority = 1
                      THEN 100 + linkedLinear.priority ELSE 200,
     pr |-> prData.pr,
     prReasonLabel |-> prData.reasonLabel,
     linearIssue |-> linkedLinear,
     isDraft |-> prData.pr.draft,
     isInReview |-> FALSE,
     isBlocked |-> FALSE,
     isStale |-> FALSE]

(* the second loop skips an issue that has a pull request attachment (its  *)
(* URL is in linkedPRUrls) and a canceled issue that is not stale          *)
IssueKept(issue, issues) ==
    /\ ~(issue.attachment # 0 /\ issue.attachment \in LinkedPRUrls(issues))
    /\ ~(issue.stateType = "canceled" /\ ToLowerCase(issue.stateName) # "stale")

(* the item pushed for an issue *)
IssueItem(issue) ==
    LET stateName == ToLowerCase(issue.stateName)
        priorityRank == PriorityRank(issue.priority)
    IN
    [type |-> "linear",
     sortPriority |-> IF issue.priority = 1 THEN 100 + priorityRank
                      ELSE IF issue.stateType = "started" THEN 300 + priorityRank
                      ELSE 400 + priorityRank,
     pr |-> NullPr,
     prReasonLabel |-> "",
     linearIssue |-> issue,
     isDraft |-> FALSE,
     isInReview |-> IncludesReview(stateName),
     isBlocked |-> IncludesBlocked(stateName) \/ issue.blockedByRelation,
     isStale |-> stateName = "stale"]

BySortPriority(a, b) == a.sortPriority - b.sortPriority

combineActionableItems(prs, issues) ==
    LET prItems == [i \in 1..Len(prs) |-> PrItem(prs[i], issues)]
        kept(issue) == IssueKept(issue, issues)
        issueItems == Map(SelectSeq(issues, kept), IssueItem)
    IN  SortWith(prItems \o issueItems, BySortPriority)

(* activeItems of the Dashboard *)
IsActive(i) == ~i.isDraft /\ ~i.isInReview /\ ~i.isBlocked /\ ~i.isStale

ActiveItems(prs, issues) == SelectSeq(combineActionableItems(prs, issues), IsActive)

(* the pools of the Dashboard an item is listed in: activeItems,           *)
(* draftItems, inReviewItems, blockedItems, staleItems                     *)
PoolsOf(i) ==
    (IF IsActive(i) THEN {"active"} ELSE {})
    \cup (IF i.isDraft THEN {"draft"} ELSE {})
    \cup (IF i.isInReview THEN {"inReview"} ELSE {})
    \cup (IF ~i.isStale /\ i.isBlocked THEN {"blocked"} ELSE {})
    \cup (IF i.isStale /\ ~i.isDraft /\ ~i.isInReview THEN {"stale"} ELSE {})

(***************************************************************************)
(* CATEGORY_ORDER and getCategoryKey (app/page.tsx)                        *)
(***************************************************************************)
CATEGORY_ORDER ==
    << "urgent", "pr", "inprogress-high", "inprogress-medium", "inprogress-low",
       "inprogress-none", "todo-high", "todo-medium", "todo-low", "todo-none" >>

(* CATEGORY_ORDER.indexOf(category), counted from 1 *)
CategoryIndex(category) == CHOOSE i \in 1..Len(CATEGORY_ORDER) : CATEGORY_ORDER[i] = category

(* getCategoryKey without its two "priority === 1" branches *)
getCategoryKeyUrgentAsNone(item) ==
    LET sortPriority == IF item.sortPriority = 0 THEN 999 ELSE item.sortPriority
        section == sortPriority \div 100
        priority == item.linearIssue.priority
    IN  IF section = 1 THEN "urgent"
        ELSE IF section = 2 THEN "pr"
        ELSE IF section = 3 THEN
            IF priority = 2 THEN "inprogress-high"
            ELSE IF priority = 3 THEN "inprogress-medium"
            ELSE IF priority = 4 THEN "inprogress-low"
            ELSE "inprogress-none"
        ELSE IF priority = 2 THEN "todo-high"
        ELSE IF priority = 3 THEN "todo-medium"
        ELSE IF priority = 4 THEN "todo-low"
        ELSE "todo-none"

getCategoryKey(item) ==
    LET sortPriority == IF item.sortPriority = 0 THEN 999 ELSE item.sortPriority
        section == sortPriority \div 100
        priority == item.linearIssue.priority
    IN  IF section = 1 THEN "urgent"
        ELSE IF section = 2 THEN "pr"
        ELSE IF section = 3 THEN
            IF priority = 1 THEN "inprogress-high"
            ELSE IF priority = 2 THEN "inprogress-high"
            ELSE IF priority = 3 THEN "inprogress-medium"
            ELSE IF priority = 4 THEN "inprogress-low"
            ELSE "inprogress-none"
        ELSE IF priority = 1 THEN "todo-high"
        ELSE IF priority = 2 THEN "todo-high"
        ELSE IF priority = 3 THEN "todo-medium"
        ELSE IF priority = 4 THEN "todo-low"
        ELSE "todo-none"

(* String(item.pr?.id || item.linearIssue?.id): the id the dashboard keys  *)
(* exclusions, custom hours and custom order by                            *)
ItemId(item) == IF item.pr.id # 0 THEN String(item.pr.id) ELSE item.linearIssue.id

(* a value that may be null is a sequence of length 0 or 1 *)
Null == <<>>

(***************************************************************************)
(* estimateEffort and getDefaultEstimate (lib/openai/client.ts).  A        *)
(* reasoning string is a record: its fmt names the template, a and b are   *)
(* the numbers the template interpolates.                                  *)
(***************************************************************************)
Reasoning(fmt, a, b) == [fmt |-> fmt, a |-> a, b |-> b]

(* item.reason?.includes(...) for the reason labels of the GitHub client *)
IncludesHasReviewComments(reason) == reason \in {"Has Review Comments"}

IncludesChangesOrFix(reason) == reason \in {"Changes Requested", "Fixes Needed"}

Min(a, b) == IF a <= b THEN a ELSE b

getDefaultEstimate(item) ==
    IF item.type = "pr" \/ item.type = "pr_with_linear"
    THEN LET totalLines == item.prAdditions + item.prDeletions
             files == item.prChangedFiles
             sized ==
                 IF totalLines > 0 \/ files > 0
                 THEN IF totalLines < 100 /\ files <= 3
                      THEN [hours |-> 1, reasoning |-> Reasoning("Tiny PR: {a} lines, {b} files", totalLines, files)]
                      ELSE IF totalLines < 400 /\ files <= 8
                      THEN [hours |-> 1, reasoning |-> Reasoning("Small PR: {a} lines, {b} files", totalLines, files)]
                      ELSE IF totalLines < 1000 /\ files <= 15
                      THEN [hours |-> 1, reasoning |-> Reasoning("Medium PR: {a} lines, {b} files", totalLines, files)]
                      ELSE IF totalLines < 2000 /\ files <= 30
                      THEN [hours |-> 2, reasoning |-> Reasoning("Large PR: {a} lines, {b} files", totalLines, files)]
                      ELSE [hours |-> 4, reasoning |-> Reasoning("Very large PR: {a} lines, {b} files", totalLines, files)]
                 ELSE [hours |-> 2, reasoning |-> Reasoning("Standard PR review", 0, 0)]
         IN  IF IncludesHasReviewComments(item.reason)
             THEN [hours |-> 1, reasoning |-> Reasoning("Addressing review feedback", 0, 0)]
             ELSE IF IncludesChangesOrFix(item.reason)
             THEN [hours |-> Min(sized.hours + 1, 8),
                   reasoning |-> [sized.reasoning EXCEPT !.fmt = "Changes requested - " \o @]]
             ELSE sized
    ELSE IF item.linearPriority = "Urgent"
         THEN [hours |-> 8, reasoning |-> Reasoning("Urgent priority task", 0, 0)]
    ELSE IF item.linearPriority = "High"
         THEN [hours |-> 4, reasoning |-> Reasoning("High priority task", 0, 0)]
    ELSE IF item.linearPriority = "Medium"
         THEN [hours |-> 2, reasoning |-> Reasoning("Medium priority task", 0, 0)]
    ELSE [hours |-> 1, reasoning |-> Reasoning("Low priority quick task", 0, 0)]

(* the item with the estimate est attached: { ...item, hours, reasoning } *)
WithEstimate(item, est) ==
    [id |-> item.id, type |-> item.type,
     prAdditions |-> item.prAdditions, prDeletions |-> item.prDeletions,
     prChangedFiles |-> item.prChangedFiles,
     linearPriority |-> item.linearPriority, reason |-> item.reason,
     hours |-> est.hours, reasoning |-> est.reasoning]

(* An outcome of the call of the oracle: kind is "noKey" (no API key),     *)
(* "failed" (HTTP error, empty or unparseable content, thrown error) or    *)
(* "ok"; estimates is the estimateMap built from the parsed answer: it     *)
(* maps each id the answer has to { hours, reasoning }, either of which is *)
(* Null when the entry lacks the field or carries null.  Each field of the *)
(* result falls back on its own: est?.hours ?? fallback.hours,             *)
(* est?.reasoning ?? fallback.reasoning.                                   *)
estimateEffort(items, outcome) ==
    IF outcome.kind # "ok"
    THEN LET default(item) == WithEstimate(item, getDefaultEstimate(item))
         IN  Map(items, default)
    ELSE LET est(item) ==
                 LET fallback == getDefaultEstimate(item) IN
                 IF item.id \in DOMAIN outcome.estimates
                 THEN LET e == outcome.estimates[item.id] IN
                      WithEstimate(item,
                        [hours |-> IF e.hours = Null
                                   THEN fallback.hours ELSE e.hours[1],
                         reasoning |-> IF e.reasoning = Null
                                       THEN fallback.reasoning
                                       ELSE e.reasoning[1]])
                 ELSE WithEstimate(item, fallback)
         IN  Map(items, est)

(***************************************************************************)
(* POST /api/daily-plan (app/api/daily-plan/route.ts).  A request body is  *)
(* [items, maxHours, customHours, prioritizedIds, itemOrder]; maxHours 0   *)
(* stands for a missing maxHours too, which || 6 treats alike.             *)
(***************************************************************************)
DefaultMaxHours == 12

HasLinear(item) == item.type = "linear" \/ item.type = "pr_with_linear"

(* the id of the task item: the Linear identifier, or pr-{id} *)
TaskId(item) ==
    IF HasLinear(item) /\ item.linearIssue.identifier # ""
    THEN item.linearIssue.identifier
    ELSE PrTaskId(item.pr.id)

(* sortPriorityMap.get(id) ?? 999: the map is filled item by item, a later *)
(* item overwriting an earlier one with the same task id                   *)
RECURSIVE SortPriorityFrom(_, _, _)
SortPriorityFrom(items, id, i) ==
    IF i = 0 THEN 999
    ELSE IF TaskId(items[i]) = id THEN items[i].sortPriority
    ELSE SortPriorityFrom(items, id, i - 1)

SortPriorityOf(items, id) == SortPriorityFrom(items, id, Len(items))

(* the task item handed to estimateEffort; the fields that only the prompt *)
(* reads (title, description, repo, comments) are left out                 *)
ToTaskItem(item) ==
    [id |-> TaskId(item), type |-> item.type,
     prAdditions |-> item.pr.additions, prDeletions |-> item.pr.deletions,
     prChangedFiles |-> item.pr.changed_files,
     linearPriority |-> item.linearIssue.priorityLabel,
     reason |-> item.prReasonLabel]

(* items.find(orig => task id of orig === id): the first such item; the   *)
(* ids searched for are task ids of items, so there is one                 *)
RECURSIVE FindFrom(_, _, _)
FindFrom(items, id, i) ==
    IF TaskId(items[i]) = id THEN items[i] ELSE FindFrom(items, id, i + 1)

FindOriginal(items, id) == FindFrom(items, id, 1)

(* customHours[key] is truthy *)
Truthy(customHours, key) == key \in DOMAIN customHours /\ customHours[key] # 0

(* (prId && customHours[prId]) || (linearId && customHours[linearId]) is   *)
(* truthy, and its value then                                              *)
HasCustomHourValue(original, customHours) ==
    \/ (original.pr.id # 0 /\ Truthy(customHours, String(original.pr.id)))
    \/ (original.linearIssue.id # "" /\ Truthy(customHours, original.linearIssue.id))

CustomHourValue(original, customHours) ==
    IF original.pr.id # 0 /\ Truthy(customHours, String(original.pr.id))
    THEN customHours[String(original.pr.id)]
    ELSE customHours[original.linearIssue.id]

ApplyCustomHoursNever(item, items, customHours) == item

ApplyCustomHours(item, items, customHours) ==
    LET original == FindOriginal(items, item.id) IN
    IF HasCustomHourValue(original, customHours)
    THEN [item EXCEPT !.hours = CustomHourValue(original, customHours),
                      !.reasoning = Reasoning("Custom estimate: {a}h",
                                              CustomHourValue(original, customHours), 0)]
    ELSE item

(* aOriginal?.pr?.id ? String(aOriginal.pr.id) : aOriginal?.linearIssue?.id || "" *)
OriginalKey(original) ==
    IF original.pr.id # 0 THEN String(original.pr.id) ELSE original.linearIssue.id

(* the comparator of sortedForScoping *)
ScopingCompare(a, b, items, prioritizedSet) ==
    LET aSortPriority == SortPriorityOf(items, a.id)
        bSortPriority == SortPriorityOf(items, b.id)
        aSection == aSortPriority \div 100
        bSection == bSortPriority \div 100
        aPrioritized == OriginalKey(FindOriginal(items, a.id)) \in prioritizedSet
        bPrioritized == OriginalKey(FindOriginal(items, b.id)) \in prioritizedSet
    IN  IF aSection # bSection THEN aSection - bSection
        ELSE IF aPrioritized /\ ~bPrioritized THEN -1
        ELSE IF ~aPrioritized /\ bPrioritized THEN 1
        ELSE aSortPriority - bSortPriority

SortedForScoping(withCustomHours, items, prioritizedSet) ==
    LET cmp(a, b) == ScopingCompare(a, b, items, prioritizedSet)
    IN  SortWith(withCustomHours, cmp)

(* overflowItemIds.  The handler reads overflowAt from the result of       *)
(* scopeToWorkday; a result without that property yields undefined, which  *)
(* passes the test !== null and fails the loop test i < length at once.    *)
OverflowItemIdsFromStart(scoped) ==
    { scoped.items[i].id : i \in 1..Len(scoped.items) }

OverflowItemIds(scoped) ==
    IF "overflowAt" \in DOMAIN scoped
    THEN { scoped.items[i].id : i \in (scoped.overflowAt + 1)..Len(scoped.items) }
    ELSE {}

(* an item of the result: the original item with sortPriority, _taskId,    *)
(* hours, reasoning and isOverflow set                                     *)
ResultItem(e, items, overflowItemIds) ==
    [sortPriority |-> SortPriorityOf(items, e.id),
     taskId |-> e.id,
     hours |-> e.hours,
     reasoning |-> e.reasoning,
     isOverflow |-> e.id \in overflowItemIds]
    @@ FindOriginal(items, e.id)

(* the comparator of sortedResult *)
ResultCompare(a, b, prioritizedSet) ==
    LET aSection == a.sortPriority \div 100
        bSection == b.sortPriority \div 100
        aPrioritized == OriginalKey(a) \in prioritizedSet
        bPrioritized == OriginalKey(b) \in prioritizedSet
    IN  IF aSection # bSection THEN aSection - bSection
        ELSE IF aPrioritized /\ ~bPrioritized THEN -1
        ELSE IF ~aPrioritized /\ bPrioritized THEN 1
        ELSE a.sortPriority - b.sortPriority

(* the response: status 200 with a plan; a plan without maxHours and       *)
(* isOverTime (the empty plan) has them 0 and FALSE                        *)
PlanResponse(items, totalHours, maxHours, isOverTime) ==
    [status |-> 200, items |-> items, totalHours |-> totalHours,
     maxHours |-> maxHours, isOverTime |-> isOverTime]

MaxHoursOf(body) == IF body.maxHours = 0 THEN DefaultMaxHours ELSE body.maxHours

(* const estimated = await estimateEffort(taskItems) *)
Estimated(body, outcome) == estimateEffort(Map(body.items, ToTaskItem), outcome)

(* withCustomHours, sorted for scoping *)
ScopingOrder(body, est) ==
    LET custom(item) == ApplyCustomHours(item, body.items, body.customHours)
    IN  SortedForScoping(Map(est, custom), body.items, body.prioritizedIds)

(* the handler from the result of scopeToWorkday on *)
PlanOf(body, scoped, overflowItemIds) ==
    LET result(e) == ResultItem(e, body.items, overflowItemIds)
        cmp(a, b) == ResultCompare(a, b, body.prioritizedIds)
    IN  PlanResponse(SortWith(Map(scoped.items, result), cmp),
                     scoped.totalHours, MaxHoursOf(body),
                     scoped.totalHours > MaxHoursOf(body))

ScopedPlan(body, scoped) == PlanOf(body, scoped, OverflowItemIds(scoped))

(* the handler from the call of scopeToWorkday on *)
PostResult(body, sorted) == ScopedPlan(body, scopeToWorkday(sorted, MaxHoursOf(body)))

(***************************************************************************)
(* The handler as a process.  pc is "idle" (no request), "received" (the   *)
(* body is parsed), "estimating" (estimateEffort awaits the oracle) or     *)
(* "responded".                                                            *)
(***************************************************************************)
NoCustomHours == [k \in {} |-> 0]

NoItemOrder == [c \in {} |-> <<>>]

NoRequest == [items |-> <<>>, maxHours |-> 0, customHours |-> NoCustomHours,
              prioritizedIds |-> {}, itemOrder |-> NoItemOrder]

NoResponse == [status |-> 0, items |-> <<>>, totalHours |-> 0,
               maxHours |-> 0, isOverTime |-> FALSE]

(* maxHours of a request: missing, 4h *)
BudgetChoices == {0, 8}

(* a customHours entry: negative, zero, 3h *)
CustomHourChoices == {-2, 0, 6}

(* the hours the oracle answers with: 8h for every task, or hours that     *)
(* differ from task to task; the answers drawn for the handler have an     *)
(* entry with hours and reasoning for every id                             *)
MixedHours ==
    ("ENG-1" :> 4) @@ ("ENG-2" :> 4) @@ ("ENG-3" :> 8) @@ ("ENG-4" :> 1) @@
    ("ENG-5" :> 16) @@ ("ENG-6" :> 2) @@ ("pr-1" :> 2) @@ ("pr-2" :> 1)

OracleAnswers(items) ==
    LET ids == { TaskId(items[i]) : i \in 1..Len(items) }
        entry(h) == [hours |-> <<h>>, reasoning |-> <<Reasoning("oracle", 0, 0)>>]
    IN  { [id \in ids |-> entry(16)], [id \in ids |-> entry(MixedHours[id])] }

ItemIds(items) == { ItemId(items[i]) : i \in 1..Len(items) }

(* the Linear ids of the issues linked to pull requests: customHours may    *)
(* hold an entry under them too                                            *)
LinkedIds(items) ==
    { items[i].linearIssue.id :
        i \in { j \in 1..Len(items) : items[j].type = "pr_with_linear" } }

CustomHoursChoices(items) ==
    {NoCustomHours} \cup
    { (k :> v) : k \in ItemIds(items) \cup LinkedIds(items), v \in CustomHourChoices }

PrioritizedChoices(items) == {{}} \cup { {k} : k \in ItemIds(items) }

DataInit ==
    /\ actionablePRs \in FetchedPRs
    /\ linearIssues \in FetchedIssues

ServerIdle ==
    /\ request = NoRequest
    /\ pc = "idle"
    /\ estimated = <<>>
    /\ sortedForScoping = <<>>
    /\ response = NoResponse

ClientIdle ==
    /\ itemOrder = NoItemOrder
    /\ excludedItemIds = {}
    /\ customHourEstimates = NoCustomHours
    /\ dailyPlanItems = <<>>
    /\ dailyPlanTotal = 0
    /\ dailyPlanMaxHours = 0
    /\ planRuns = 0

ScopeIdle ==
    /\ scopeItems = <<>>
    /\ scopeMaxHours = 0
    /\ scopeResult = NoResult
    /\ scopeCalled = FALSE

(* no calendar is connected: no event fetched, none selected *)
CalendarIdle ==
    /\ calendarEvents = <<>>
    /\ selectedEventIds = {}

CallIdle ==
    /\ callArgs = <<>>
    /\ callResult = <<>>
    /\ callDone = FALSE

(* the users of the dashboard, by GitHub username *)
Users == {"octocat", "hubot"}

getDailyPlanKey(githubUsername) == <<"dailyPlan_", githubUsername>>

getItemOrderKey(githubUsername) == <<"itemOrder_", githubUsername>>

(* the item of localStorage that keeps the selected user *)
SelectedUserIdKey == <<"selectedUserId">>

StorageKeys ==
    { getDailyPlanKey(u) : u \in Users } \cup { getItemOrderKey(u) : u \in Users }
        \cup { SelectedUserIdKey }

(* the first user is selected, nothing is stored, no plan was run, the     *)
(* items were fetched without an error and no fetch is under way           *)
UserIdle ==
    /\ selectedUser = "octocat"
    /\ planClosure = Null
    /\ localStorage = [k \in StorageKeys |-> Null]
    /\ dailyPlanLastRun = Null
    /\ clock = 0
    /\ userData = Null
    /\ actionableError = Null
    /\ linearUnavailable = FALSE
    /\ actionableLoading = FALSE
    /\ pendingFetches = 0
    /\ setItemThrows = FALSE

(* a Date is its time in ticks since the epoch; TicksPerDay ticks make a   *)
(* day, and local time is TimezoneOffset ticks ahead of UTC                *)
TicksPerDay == 2

TimezoneOffset == 1

MaxClock == 2

(* date.toISOString(): the UTC date and the UTC time of day *)
toISOString(date) == [date |-> date \div TicksPerDay, time |-> date % TicksPerDay]

(* new Date(isoString) *)
NewDate(isoString) == isoString.date * TicksPerDay + isoString.time

(* getFullYear(), getMonth() and getDate(): the local calendar day *)
LocalDate(date) == (date + TimezoneOffset) \div TicksPerDay

(* the same day, each date taken by its UTC calendar day *)
isSameDayUtc(date1, date2) == date1 \div TicksPerDay = date2 \div TicksPerDay

isSameDay(date1, date2) == LocalDate(date1) = LocalDate(date2)

(* the events of calendarEvents whose id is selected *)
SelectedMeetings(events, selected) ==
    LET RECURSIVE filter(_)
        filter(n) ==
            IF n = 0 THEN <<>>
            ELSE IF events[n].id \in selected
                 THEN Append(filter(n - 1), events[n])
                 ELSE filter(n - 1)
    IN  filter(Len(events))

(* what loadDailyPlanFromStorage sets when there is no valid data *)
ResetDailyPlan ==
    [dailyPlanItems |-> <<>>, dailyPlanTotal |-> 0, dailyPlanMaxHours |-> 0,
     dailyPlanLastRun |-> Null, calendarEvents |-> <<>>, selectedEventIds |-> {}]

(* the plan restored when the stored run is compared by its UTC day *)
loadDailyPlanFromStorageUtcDay(stored, today) ==
    IF stored = Null THEN ResetDailyPlan
    ELSE LET parsed == stored[1]
             lastRunDate == NewDate(parsed.lastRun)
         IN  IF isSameDayUtc(lastRunDate, today)
             THEN [dailyPlanItems |-> parsed.items,
                   dailyPlanTotal |-> parsed.totalHours,
                   dailyPlanMaxHours |-> parsed.maxHours,
                   dailyPlanLastRun |-> <<lastRunDate>>,
                   calendarEvents |-> parsed.meetings,
                   selectedEventIds |->
                       { parsed.meetings[i].id : i \in 1..Len(parsed.meetings) }]
             ELSE ResetDailyPlan

(* loadDailyPlanFromStorage(githubUsername), as the state it sets: stored  *)
(* is the item of the user's key, today is new Date(); a plan of another   *)
(* day is reset together with its meetings                                 *)
loadDailyPlanFromStorage(stored, today) ==
    IF stored = Null THEN ResetDailyPlan
    ELSE LET parsed == stored[1]
             lastRunDate == NewDate(parsed.lastRun)
         IN  IF isSameDay(lastRunDate, today)
             THEN [dailyPlanItems |-> parsed.items,
                   dailyPlanTotal |-> parsed.totalHours,
                   dailyPlanMaxHours |-> parsed.maxHours,
                   dailyPlanLastRun |-> <<lastRunDate>>,
                   calendarEvents |-> parsed.meetings,
                   selectedEventIds |->
                       { parsed.meetings[i].id : i \in 1..Len(parsed.meetings) }]
             ELSE ResetDailyPlan

(* the runs of the check-actions handler, by the order of their start *)
MaxCronRuns == 2

(* a run that has not started: its position, its locals, the pairs its    *)
(* loop has still to go through and the runs that had responded when it    *)
(* started                                                                 *)
IdleRun == [pc |-> "idle", currentPRs |-> {}, storedMap |-> {}, newPRs |-> {},
            todo |-> {}, removedCount |-> 0, slackResult |-> "none", after |-> {}]

(* the cron has not run: nothing actionable, no row, no notification *)
CronIdle ==
    /\ githubActionable = {}
    /\ githubReviewed = FALSE
    /\ actionable_pr_states = {}
    /\ cronRun = [r \in 1..MaxCronRuns |-> IdleRun]
    /\ slackNotifications = <<>>

(* the handler from the answer of estimateEffort to its response *)
Respond(outcome) ==
    \E est \in {Estimated(request, outcome)} :
    \E sorted \in {ScopingOrder(request, est)} :
        /\ estimated' = est
        /\ sortedForScoping' = sorted
        /\ response' = PostResult(request, sorted)
        /\ pc' = "responded"

(* a caller posts a request for the active items, with any budget, custom  *)
(* hours and prioritized ids                                               *)
ApiRequest ==
    /\ pc = "idle"
    /\ \E items \in {ActiveItems(actionablePRs, linearIssues)} :
       \E maxHours \in BudgetChoices :
       \E customHours \in CustomHoursChoices(items) :
       \E prioritizedIds \in PrioritizedChoices(items) :
          request' = [items |-> items,
                      maxHours |-> maxHours,
                      customHours |-> customHours,
                      prioritizedIds |-> prioritizedIds,
                      itemOrder |-> NoItemOrder]
    /\ pc' = "received"
    /\ UNCHANGED <<estimated, sortedForScoping, response, dataVars, calendarVars, callVars, userVars, cronVars, clientVars, scopeVars>>

(* the handler without its check of items.length: the empty list goes to  *)
(* the oracle like any other                                               *)
PostEmptyViaOracle ==
    /\ pc = "received"
    /\ Len(request.items) = 0
    /\ pc' = "estimating"
    /\ UNCHANGED <<request, estimated, sortedForScoping, response, dataVars,
                   calendarVars, callVars, userVars, cronVars, clientVars, scopeVars>>

(* items.length === 0: the empty plan, before any estimate *)
PostEmpty ==
    /\ pc = "received"
    /\ Len(request.items) = 0
    /\ response' = PlanResponse(<<>>, 0, 0, FALSE)
    /\ pc' = "responded"
    /\ UNCHANGED <<request, estimated, sortedForScoping, dataVars, calendarVars, callVars, userVars, cronVars, clientVars, scopeVars>>

(* estimateEffort without an API key: the default estimates, no call *)
PostNoKey ==
    /\ pc = "received"
    /\ Len(request.items) > 0
    /\ Respond([kind |-> "noKey"])
    /\ UNCHANGED <<request, dataVars, calendarVars, callVars, userVars, cronVars, clientVars, scopeVars>>

(* estimateEffort with an API key: the request to the oracle is sent *)
PostCallOracle ==
    /\ pc = "received"
    /\ Len(request.items) > 0
    /\ pc' = "estimating"
    /\ UNCHANGED <<request, estimated, sortedForScoping, response, dataVars, calendarVars, callVars, userVars, cronVars, clientVars, scopeVars>>

(* the oracle answers with a parseable list of estimates *)
OracleAnswer ==
    /\ pc = "estimating"
    /\ \E estimates \in OracleAnswers(request.items) :
          Respond([kind |-> "ok", estimates |-> estimates])
    /\ UNCHANGED <<request, dataVars, calendarVars, callVars, userVars, cronVars, clientVars, scopeVars>>

(* the call fails: HTTP error, empty or unparseable content, thrown error *)
OracleFailure ==
    /\ pc = "estimating"
    /\ Respond([kind |-> "failed"])
    /\ UNCHANGED <<request, dataVars, calendarVars, callVars, userVars, cronVars, clientVars, scopeVars>>

ApiInit == DataInit /\ ServerIdle /\ ScopeIdle /\ ClientIdle /\ CalendarIdle /\ CallIdle /\ UserIdle /\ CronIdle

ApiNext ==
    \/ ApiRequest
    \/ PostEmpty
    \/ PostNoKey
    \/ PostCallOracle
    \/ OracleAnswer
    \/ OracleFailure

SpecApi == ApiInit /\ [][ApiNext]_vars

(* the response of the catch block of the handler *)
ErrorResponse == [status |-> 500, error |-> "Failed to generate daily plan"]

(* a caller posts a body the handler cannot work with: request.json()      *)
(* rejects a body that is not JSON, and the loop over items throws for an  *)
(* items that is not a list; both end in the catch block                   *)
PostMalformed ==
    /\ pc = "idle"
    /\ \E body \in {"not JSON", "items is not a list"} :
          request' = [malformed |-> body]
    /\ response' = ErrorResponse
    /\ pc' = "responded"
    /\ UNCHANGED <<estimated, sortedForScoping, dataVars, calendarVars, callVars, userVars, cronVars,
                   clientVars, scopeVars>>

(* the handler for every body, well-formed or not *)
SpecApiAny == ApiInit /\ [][ApiNext \/ PostMalformed]_vars

(***************************************************************************)
(* The Dashboard (app/page.tsx): the custom order of the task selection,   *)
(* generateDailyPlan and the handler of its response.                      *)
(***************************************************************************)
(* planning requests one session sends *)
MaxRuns == 1

(* the hours asked of generateDailyPlan: 6h, the selectedHours a session   *)
(* starts with                                                             *)
HoursChoices == {12}

(* the calendar events a fetch can return, first to last: a meeting of    *)
(* 90 minutes the user accepted, one of 5 hours the user declined and an   *)
(* all-day event.  Every duration is a multiple of 30 minutes, so that     *)
(* durationMinutes / 60 is a whole number of half hours.                   *)
CalendarCatalogue ==
    << [id |-> "e1", durationMinutes |-> 90, isAllDay |-> FALSE,
        responseStatus |-> "accepted"],
       [id |-> "e2", durationMinutes |-> 300, isAllDay |-> FALSE,
        responseStatus |-> "declined"],
       [id |-> "e3", durationMinutes |-> 1440, isAllDay |-> TRUE,
        responseStatus |-> ""] >>

(* the sum of durationMinutes / 60 over every event, selected or not *)
totalMeetingHoursOfAllEvents ==
    LET RECURSIVE reduce(_)
        reduce(n) ==
            IF n = 0 THEN 0
            ELSE reduce(n - 1) + calendarEvents[n].durationMinutes \div 30
    IN  reduce(Len(calendarEvents))

(* calendarEvents.filter(selected).reduce(sum + durationMinutes / 60, 0),  *)
(* in half hours                                                           *)
totalMeetingHours ==
    LET RECURSIVE reduce(_)
        reduce(n) ==
            IF n = 0 THEN 0
            ELSE reduce(n - 1) +
                 (IF calendarEvents[n].id \in selectedEventIds
                  THEN calendarEvents[n].durationMinutes \div 30 ELSE 0)
    IN  reduce(Len(calendarEvents))

Max(a, b) == IF a >= b THEN a ELSE b

(* what fetchActionablePullRequests returns: the pull requests, or an      *)
(* empty list and the error string                                         *)
fetchActionablePullRequests(outcome) ==
    IF outcome.kind = "ok"
    THEN [actionablePRs |-> outcome.items, error |-> Null]
    ELSE [actionablePRs |-> <<>>, error |-> <<outcome.message>>]

(* what client.getMyActionableIssues() answers: the urgent issues and a    *)
(* started one, at most MaxIssues of them, in the order Linear lists them  *)
getMyActionableIssues ==
    { Pick(IssueCatalogue, idx, 1) :
        idx \in { x \in SUBSET {1, 2, 3, 6} : Cardinality(x) <= MaxIssues } }

(* what fetchMyLinearIssues returns: the issues sorted by priorityOrder,   *)
(* urgent first and no priority last, or an empty list and the error       *)
(* string                                                                  *)
fetchMyLinearIssues(outcome) ==
    LET priorityOrder(priority) == CASE priority = 1 -> 0
                                     [] priority = 2 -> 1
                                     [] priority = 3 -> 2
                                     [] priority = 4 -> 3
                                     [] priority = 0 -> 4
                                     [] OTHER -> 5
        cmp(a, b) == priorityOrder(a.priority) - priorityOrder(b.priority)
    IN  IF outcome.kind = "ok"
        THEN [issues |-> SortWith(outcome.items, cmp), error |-> Null,
              linearUnavailable |-> FALSE]
        ELSE [issues |-> <<>>, error |-> <<outcome.message>>, linearUnavailable |-> FALSE]

(* the issues the Dashboard holds after its fetch *)
DashboardIssues ==
    { fetchMyLinearIssues([kind |-> "ok", items |-> issues]).issues :
        issues \in getMyActionableIssues }

(* the item order loadItemOrderFromStorage finds for the user: none, or an *)
(* order of the urgent category saved by an earlier session                *)
StoredItemOrders == { NoItemOrder, ("urgent" :> <<"1", "L2">>) }

(* order.indexOf(id): the position counted from 0, -1 when absent *)
IndexOf(order, id) ==
    IF \E i \in 1..Len(order) : order[i] = id
    THEN (CHOOSE i \in 1..Len(order) :
             order[i] = id /\ \A j \in 1..(i - 1) : order[j] # id) - 1
    ELSE -1

(* itemOrder[category] || [] *)
CategoryItemOrder(order, category) ==
    IF category \in DOMAIN order THEN order[category] ELSE <<>>

(* a.sortPriority || 999 *)
SortPriorityOr999(item) == IF item.sortPriority = 0 THEN 999 ELSE item.sortPriority

(* the comparator of the items of one category: custom order if there is   *)
(* one, otherwise sortPriority                                             *)
OrderCompare(a, b, order) ==
    LET aIndex == IndexOf(order, ItemId(a))
        bIndex == IndexOf(order, ItemId(b))
    IN  IF aIndex # -1 /\ bIndex # -1 THEN aIndex - bIndex
        ELSE IF aIndex # -1 THEN -1
        ELSE IF bIndex # -1 THEN 1
        ELSE SortPriorityOr999(a) - SortPriorityOr999(b)

(* categorizedItems[category] of TaskSelectionWithDnd *)
categorizedItems(activeItems, order, category) ==
    LET inCategory(item) == getCategoryKey(item) = category
        cmp(a, b) == OrderCompare(a, b, CategoryItemOrder(order, category))
    IN  SortWith(SelectSeq(activeItems, inCategory), cmp)

(* arrayMove of @dnd-kit/sortable, indices counted from 0: the element at  *)
(* from is taken out and put back at to                                    *)
arrayMove(array, from, to) ==
    LET moved == array[from + 1]
        rest == [i \in 1..(Len(array) - 1) |->
                    IF i < from + 1 THEN array[i] ELSE array[i + 1]]
    IN  Tuple([i \in 1..Len(array) |->
                  IF i < to + 1 THEN rest[i]
                  ELSE IF i = to + 1 THEN moved
                  ELSE rest[i - 1]])

(* activeCategory of handleDragEnd: the first category of CATEGORY_ORDER   *)
(* that holds an item of this id, "" when there is none                    *)
ActiveCategory(activeItems, id) ==
    LET found == { i \in 1..Len(CATEGORY_ORDER) :
                     \E k \in 1..Len(activeItems) :
                         /\ ItemId(activeItems[k]) = id
                         /\ getCategoryKey(activeItems[k]) = CATEGORY_ORDER[i] }
    IN  IF found = {} THEN ""
        ELSE CATEGORY_ORDER[CHOOSE i \in found : \A j \in found : i <= j]

(* the drag is not one that handleDragEnd returns from without a change:   *)
(* active and over differ and over is in the category of active            *)
DragAccepted(activeItems, active, over) ==
    /\ active # over
    /\ ActiveCategory(activeItems, active) # ""
    /\ \E k \in 1..Len(activeItems) :
          /\ ItemId(activeItems[k]) = over
          /\ getCategoryKey(activeItems[k]) = ActiveCategory(activeItems, active)

(* the item order after a drag that stores the ids of all active items,    *)
(* not those of the category alone                                         *)
DragEndAllItems(activeItems, order, active, over) ==
    LET activeCategory == ActiveCategory(activeItems, active)
        currentIds == Map(activeItems, ItemId)
        oldIndex == IndexOf(currentIds, active)
        newIndex == IndexOf(currentIds, over)
    IN  (activeCategory :> arrayMove(currentIds, oldIndex, newIndex)) @@ order

(* the item order after an accepted drag of active onto over *)
DragEnd(activeItems, order, active, over) ==
    LET activeCategory == ActiveCategory(activeItems, active)
        currentIds == Map(categorizedItems(activeItems, order, activeCategory), ItemId)
        oldIndex == IndexOf(currentIds, active)
        newIndex == IndexOf(currentIds, over)
    IN  (activeCategory :> arrayMove(currentIds, oldIndex, newIndex)) @@ order

(* a comparator of the plan that leaves the custom order out *)
SortedItemsCompareNoOrder(a, b, order) ==
    LET aCatIndex == CategoryIndex(getCategoryKey(a))
        bCatIndex == CategoryIndex(getCategoryKey(b))
    IN  IF aCatIndex # bCatIndex THEN aCatIndex - bCatIndex
        ELSE SortPriorityOr999(a) - SortPriorityOr999(b)

(* the comparator generateDailyPlan sorts the returned items with *)
SortedItemsCompare(a, b, order) ==
    LET aCategory == getCategoryKey(a)
        bCategory == getCategoryKey(b)
        aCatIndex == CategoryIndex(aCategory)
        bCatIndex == CategoryIndex(bCategory)
    IN  IF aCatIndex # bCatIndex THEN aCatIndex - bCatIndex
        ELSE OrderCompare(a, b, CategoryItemOrder(order, aCategory))

(* sortedItems of generateDailyPlan *)
SortedItems(items, order) ==
    LET cmp(a, b) == SortedItemsCompare(a, b, order) IN SortWith(items, cmp)

(* itemsToSend without the filter on excludedItemIds *)
ItemsToSendUnfiltered(activeItems, excluded) == activeItems

(* itemsToSend of generateDailyPlan *)
ItemsToSend(activeItems, excluded) ==
    LET kept(item) == ItemId(item) \notin excluded IN SelectSeq(activeItems, kept)

(* the items that can carry a custom hour estimate at once *)
MaxCustomHours == 1

(* setCustomHours(itemId, hours), from the hours input of the row of an    *)
(* active item: an empty input (null), 0 and negative hours delete the     *)
(* item's entry, positive hours set it                                     *)
setCustomHours ==
    /\ \E itemId \in ItemIds(ActiveItems(actionablePRs, linearIssues)) :
       \E hours \in {Null, <<0>>, <<6>>} :
          IF hours = Null \/ hours[1] <= 0
          THEN customHourEstimates' =
                  [k \in DOMAIN customHourEstimates \ {itemId} |-> customHourEstimates[k]]
          ELSE /\ Cardinality(DOMAIN customHourEstimates \cup {itemId}) <= MaxCustomHours
               /\ customHourEstimates' = (itemId :> hours[1]) @@ customHourEstimates
    /\ UNCHANGED <<itemOrder, excludedItemIds, dailyPlanItems, dailyPlanTotal,
                   dailyPlanMaxHours, planRuns, dataVars, calendarVars, serverVars,
                   scopeVars, callVars, userVars, cronVars>>

(* a drag of the task selection ends: handleDragEnd, then                  *)
(* handleItemOrderChange with the new order, which saveItemOrderToStorage  *)
(* stores; when the storage refuses the write the error is ignored and     *)
(* nothing is stored                                                       *)
handleDragEnd ==
    /\ \E activeItems \in {ActiveItems(actionablePRs, linearIssues)} :
       \E active, over \in ItemIds(activeItems) :
          /\ DragAccepted(activeItems, active, over)
          /\ \E newOrder \in {DragEnd(activeItems, itemOrder, active, over)} :
                /\ itemOrder' = newOrder
                /\ IF setItemThrows
                   THEN UNCHANGED localStorage
                   ELSE localStorage' =
                           [localStorage EXCEPT
                              ![getItemOrderKey(selectedUser)] = <<newOrder>>]
    /\ UNCHANGED <<excludedItemIds, customHourEstimates, dailyPlanItems,
                   dailyPlanTotal, dailyPlanMaxHours, planRuns,
                   dataVars, calendarVars, callVars, cronVars, serverVars, scopeVars,
                   selectedUser, planClosure, dailyPlanLastRun, clock,
                   userData, actionableError, linearUnavailable, actionableLoading,
                   pendingFetches, setItemThrows>>

(* generateDailyPlan(hours) up to the fetch of /api/daily-plan: the body   *)
(* carries no prioritizedIds                                               *)
generateDailyPlan ==
    /\ pc = "idle"
    /\ planRuns < MaxRuns
    /\ \E activeItems \in {ActiveItems(actionablePRs, linearIssues)} :
       \E itemsToSend \in {ItemsToSend(activeItems, excludedItemIds)} :
           /\ Len(activeItems) # 0
           /\ Len(itemsToSend) # 0
           /\ \E hours \in HoursChoices :
                 request' = [items |-> itemsToSend,
                             maxHours |-> Max(1, hours - totalMeetingHours),
                             customHours |-> customHourEstimates,
                             prioritizedIds |-> {},
                             itemOrder |-> itemOrder]
    /\ planClosure' =
          << [selectedUser |-> selectedUser,
              selectedMeetings |-> SelectedMeetings(calendarEvents, selectedEventIds)] >>
    /\ pc' = "received"
    /\ planRuns' = planRuns + 1
    /\ UNCHANGED <<estimated, sortedForScoping, response, itemOrder, excludedItemIds,
                   customHourEstimates, dailyPlanItems, dailyPlanTotal,
                   dailyPlanMaxHours, dataVars, calendarVars, callVars, cronVars, scopeVars,
                   selectedUser, localStorage, dailyPlanLastRun, clock,
                   userData, actionableError, linearUnavailable, actionableLoading,
                   pendingFetches, setItemThrows>>

(* the response arrives: the callback of generateDailyPlan sorts the items *)
(* by the item order it was called with, shows the plan and stores it      *)
(* under the key of the user it was called for, with the meetings that     *)
(* were selected then; when the storage refuses the write the plan is      *)
(* shown, the catch of the callback swallows the error and nothing is      *)
(* stored                                                                  *)
DailyPlanLoaded ==
    /\ pc = "responded"
    /\ IF response.status = 200
       THEN \E sortedItems \in {SortedItems(response.items, request.itemOrder)} :
            \E maxHours \in {IF response.maxHours = 0 THEN request.maxHours
                                                         ELSE response.maxHours} :
            \E newLastRun \in {clock} :
               /\ dailyPlanItems' = sortedItems
               /\ dailyPlanTotal' = response.totalHours
               /\ dailyPlanMaxHours' = maxHours
               /\ dailyPlanLastRun' = <<newLastRun>>
               /\ IF setItemThrows
                  THEN UNCHANGED localStorage
                  ELSE localStorage' =
                          [localStorage EXCEPT
                             ![getDailyPlanKey(planClosure[1].selectedUser)] =
                                 << [items |-> sortedItems,
                                     totalHours |-> response.totalHours,
                                     maxHours |-> maxHours,
                                     lastRun |-> toISOString(newLastRun),
                                     meetings |-> planClosure[1].selectedMeetings] >>]
       ELSE UNCHANGED <<dailyPlanItems, dailyPlanTotal, dailyPlanMaxHours,
                        dailyPlanLastRun, localStorage>>
    /\ planClosure' = Null
    /\ request' = NoRequest
    /\ pc' = "idle"
    /\ estimated' = <<>>
    /\ sortedForScoping' = <<>>
    /\ response' = NoResponse
    /\ UNCHANGED <<itemOrder, excludedItemIds, customHourEstimates, planRuns,
                   dataVars, calendarVars, callVars, cronVars, scopeVars,
                   selectedUser, clock, userData, actionableError, linearUnavailable,
                   actionableLoading, pendingFetches, setItemThrows>>

Init ==
    /\ actionablePRs \in FetchedPRs
    /\ linearIssues \in DashboardIssues
    /\ ServerIdle
    /\ ScopeIdle
    /\ itemOrder \in StoredItemOrders
    /\ excludedItemIds = {}
    /\ customHourEstimates = NoCustomHours
    /\ dailyPlanItems = <<>>
    /\ dailyPlanTotal = 0
    /\ dailyPlanMaxHours = 0
    /\ planRuns = 0
    /\ CalendarIdle
    /\ selectedUser = "octocat"
    /\ planClosure = Null
    /\ localStorage =
          [k \in StorageKeys |->
              IF k = getItemOrderKey("octocat") /\ itemOrder # NoItemOrder
              THEN <<itemOrder>>
              ELSE Null]
    /\ dailyPlanLastRun = Null
    /\ clock = 0
    /\ userData = Null
    /\ actionableError = Null
    /\ linearUnavailable = FALSE
    /\ actionableLoading = FALSE
    /\ pendingFetches = 0
    /\ setItemThrows \in BOOLEAN
    /\ CronIdle
    /\ CallIdle

Next ==
    \/ handleDragEnd
    \/ setCustomHours
    \/ generateDailyPlan
    \/ PostNoKey
    \/ PostCallOracle
    \/ OracleAnswer
    \/ OracleFailure
    \/ DailyPlanLoaded

Spec == Init /\ [][Next]_vars

(* the oracle accepts the request and does not answer: the fetch of        *)
(* estimateEffort carries no signal and no timeout of its own, its promise *)
(* stays pending and the handler waits at its await                        *)
OracleSilent ==
    /\ pc = "estimating"
    /\ pc' = "waiting"
    /\ UNCHANGED <<request, estimated, sortedForScoping, response, dataVars,
                   calendarVars, callVars, userVars, cronVars, clientVars, scopeVars>>

(* the runtime gives up a fetch whose answer does not come: the promise    *)
(* rejects and the handler aborts the run with an error response           *)
OracleTimeoutAborts ==
    /\ pc = "waiting"
    /\ pc' = "responded"
    /\ response' = ErrorResponse
    /\ UNCHANGED <<request, estimated, sortedForScoping, dataVars, calendarVars,
                   callVars, userVars, cronVars, clientVars, scopeVars>>

(* the runtime gives up a fetch whose answer does not come (the headers    *)
(* timeout of its fetch): the promise rejects, the catch of estimateEffort *)
(* returns the default estimates and the handler runs on to its response   *)
OracleTimeout ==
    /\ pc = "waiting"
    /\ Respond([kind |-> "failed"])
    /\ UNCHANGED <<request, dataVars, calendarVars, callVars, userVars, cronVars,
                   clientVars, scopeVars>>

(* the handler runs from the request to its await of the oracle, or to    *)
(* its response when it does not call the oracle                           *)
HandlerStarts == pc = "received" /\ pc' \in {"estimating", "responded"}

(* the call of the oracle settles, with an answer or a failure, and the    *)
(* handler runs on to its response                                         *)
CallSettles == pc = "estimating" /\ pc' = "responded"

(* The planning runs of the Dashboard under fair scheduling: the handler   *)
(* runs when it has a request, a call of the oracle settles with an        *)
(* answer or a failure or the oracle stays silent, the runtime's timer     *)
(* ends the wait for a silent oracle, and the Dashboard's callback runs    *)
(* when the response is there.  The user sets custom hours and asks for    *)
(* plans; the order of the items is the one found in the storage.          *)
SpecLive ==
    /\ Init
    /\ [][\/ setCustomHours
          \/ generateDailyPlan
          \/ PostNoKey
          \/ PostCallOracle
          \/ OracleAnswer
          \/ OracleFailure
          \/ OracleSilent
          \/ OracleTimeout
          \/ DailyPlanLoaded]_vars
    /\ WF_pc(HandlerStarts)
    /\ WF_pc(CallSettles)
    /\ WF_pc(pc = "waiting" /\ pc' = "responded")
    /\ WF_vars(DailyPlanLoaded)

(***************************************************************************)
(* Specification SpecUser: the planning runs of the Dashboard with its     *)
(* user selector and a clock.  The user is switched, or selected again, at *)
(* any moment, also while a planning request is in flight; the calendar    *)
(* was fetched before and the items are not dragged.                       *)
(***************************************************************************)
(* loadItemOrderFromStorage(githubUsername), as the item order it sets *)
loadItemOrderFromStorage(stored) == IF stored = Null THEN NoItemOrder ELSE stored[1]

(* the fetches of the items that can be under way at once *)
MaxFetches == 2

(* handleUserSelect(user): the error flags are reset, the user is selected *)
(* and stored, and the user's daily plan and item order are loaded from    *)
(* localStorage; a planning request in flight is left alone.  When the     *)
(* selected user changes, the effect on selectedUser starts fetchUserData  *)
(* for the new user; selecting the user already selected starts no fetch.  *)
(* When the storage refuses the write of selectedUserId the error leaves   *)
(* the handler: the user is selected and the flags are reset, nothing is   *)
(* stored or loaded, and the plan and item order shown stay.               *)
handleUserSelect ==
    /\ \E user \in Users :
       \E loaded \in {loadDailyPlanFromStorage(localStorage[getDailyPlanKey(user)], clock)} :
          /\ user # selectedUser => pendingFetches < MaxFetches
          /\ pendingFetches' = IF user # selectedUser THEN pendingFetches + 1
                                                      ELSE pendingFetches
          /\ selectedUser' = user
          /\ IF ~setItemThrows
             THEN
                /\ localStorage' = [localStorage EXCEPT ![SelectedUserIdKey] = <<user>>]
                /\ dailyPlanItems' = loaded.dailyPlanItems
                /\ dailyPlanTotal' = loaded.dailyPlanTotal
                /\ dailyPlanMaxHours' = loaded.dailyPlanMaxHours
                /\ dailyPlanLastRun' = loaded.dailyPlanLastRun
                /\ IF loaded.dailyPlanLastRun # Null
                   THEN /\ calendarEvents' = loaded.calendarEvents
                        /\ selectedEventIds' = loaded.selectedEventIds
                   ELSE /\ calendarEvents' = <<>>
                        /\ selectedEventIds' = {}
                /\ itemOrder' = loadItemOrderFromStorage(localStorage[getItemOrderKey(user)])
             ELSE UNCHANGED <<localStorage, dailyPlanItems, dailyPlanTotal, dailyPlanMaxHours,
                            dailyPlanLastRun, calendarEvents, selectedEventIds, itemOrder>>
    /\ actionableError' = Null
    /\ linearUnavailable' = FALSE
    /\ actionableLoading' = TRUE
    /\ UNCHANGED <<excludedItemIds, customHourEstimates, planRuns, planClosure, clock,
                   setItemThrows, userData, dataVars, serverVars, scopeVars, callVars, cronVars>>

(* time passes *)
Tick ==
    /\ clock < MaxClock
    /\ clock' = clock + 1
    /\ UNCHANGED <<selectedUser, planClosure, localStorage, dailyPlanLastRun,
                   userData, actionableError, linearUnavailable, actionableLoading,
                   pendingFetches, setItemThrows, dataVars, serverVars, clientVars,
                   calendarVars, scopeVars, callVars, cronVars>>

UserInit ==
    /\ actionablePRs \in FetchedPRs
    /\ linearIssues \in { issues \in DashboardIssues : Len(issues) <= 1 }
    /\ ServerIdle
    /\ ScopeIdle
    /\ ClientIdle
    /\ \E n \in {0, Len(CalendarCatalogue)} :
          calendarEvents = SubSeq(CalendarCatalogue, 1, n)
    /\ selectedEventIds =
          { calendarEvents[i].id :
              i \in { j \in 1..Len(calendarEvents) :
                        /\ ~calendarEvents[j].isAllDay
                        /\ calendarEvents[j].responseStatus \in {"accepted", ""} } }
    /\ selectedUser = "octocat"
    /\ planClosure = Null
    /\ localStorage = [k \in StorageKeys |-> Null]
    /\ dailyPlanLastRun = Null
    /\ clock = 0
    /\ userData = Null
    /\ actionableError = Null
    /\ linearUnavailable = FALSE
    /\ actionableLoading = FALSE
    /\ pendingFetches = 0
    /\ setItemThrows \in BOOLEAN
    /\ CronIdle
    /\ CallIdle

(***************************************************************************)
(* Specification SpecFetch: fetchUserData.  Each of the two work-item      *)
(* sources answers with its items or fails with an error string; the       *)
(* Dashboard receives both results, or no result at all.                   *)
(***************************************************************************)
(* the answers of the two routes; GET /api/linear/issues answers           *)
(* linearUnavailable for a user without an email                           *)
PrResults ==
    { fetchActionablePullRequests([kind |-> "ok", items |-> prs]) : prs \in FetchedPRs }
    \cup { fetchActionablePullRequests([kind |-> "failed", message |-> m]) :
               m \in {"GitHub token not configured", "Failed to fetch actionable PRs"} }

LinearResults ==
    { fetchMyLinearIssues([kind |-> "ok", items |-> issues]) :
        issues \in getMyActionableIssues }
    \cup { fetchMyLinearIssues([kind |-> "failed", message |-> m]) :
               m \in {"Linear API key not configured", "Failed to fetch Linear issues"} }
    \cup { [issues |-> <<>>, error |-> Null, linearUnavailable |-> TRUE] }

(* prData.error && linearData.error *)
BothSourcesFailed(prData, linearData) == prData.error # Null /\ linearData.error # Null

(* fetchUserData(githubUsername), from the answers of its two fetches to   *)
(* the callback of Promise.all, or to its catch when a fetch threw: one of *)
(* the fetches under way is answered, whichever user it was started for,   *)
(* with answers of prResults and linearResults                             *)
fetchUserData(prResults, linearResults) ==
    /\ pendingFetches > 0
    /\ pendingFetches' = pendingFetches - 1
    /\ actionableLoading' = FALSE
    /\ \/ \E prData \in prResults : \E linearData \in linearResults :
             /\ userData' = << [prData |-> prData, linearData |-> linearData] >>
             /\ IF BothSourcesFailed(prData, linearData)
                THEN /\ actionableError' = << prData.error \o linearData.error >>
                     /\ UNCHANGED <<actionablePRs, linearIssues, linearUnavailable>>
                ELSE /\ actionablePRs' = prData.actionablePRs
                     /\ linearIssues' = linearData.issues
                     /\ linearUnavailable' = linearData.linearUnavailable
                     /\ UNCHANGED actionableError
       \/ /\ userData' = Null
          /\ actionableError' = << <<"Failed to load">> >>
          /\ UNCHANGED <<actionablePRs, linearIssues, linearUnavailable>>
    /\ UNCHANGED <<selectedUser, planClosure, localStorage, dailyPlanLastRun, clock,
                   setItemThrows,
                   serverVars, clientVars, calendarVars, scopeVars, callVars, cronVars>>

(* the Dashboard of specification SpecUser; its fetches are answered       *)
(* without an error and with at most one item of each source, as in        *)
(* UserInit                                                                *)
SpecUser ==
    /\ UserInit
    /\ [][\/ generateDailyPlan
          \/ PostNoKey
          \/ PostCallOracle
          \/ OracleAnswer
          \/ OracleFailure
          \/ DailyPlanLoaded
          \/ handleUserSelect
          \/ fetchUserData({ r \in PrResults : r.error = Null /\ Len(r.actionablePRs) <= 1 },
                           { r \in LinearResults : /\ r.error = Null
                                                   /\ ~r.linearUnavailable
                                                   /\ Len(r.issues) <= 1 })
          \/ Tick]_vars

(* after the mount and the answer of /api/users: the first user is         *)
(* selected and the fetch of the user's items is under way                 *)
FetchInit ==
    /\ actionablePRs = <<>>
    /\ linearIssues = <<>>
    /\ ServerIdle
    /\ ClientIdle
    /\ ScopeIdle
    /\ CalendarIdle
    /\ selectedUser = "octocat"
    /\ planClosure = Null
    /\ localStorage = [k \in StorageKeys |-> Null]
    /\ dailyPlanLastRun = Null
    /\ clock = 0
    /\ userData = Null
    /\ actionableError = Null
    /\ linearUnavailable = FALSE
    /\ actionableLoading = TRUE
    /\ pendingFetches = 1
    /\ setItemThrows \in BOOLEAN
    /\ CronIdle
    /\ CallIdle

SpecFetch ==
    FetchInit /\ [][fetchUserData(PrResults, LinearResults) \/ handleUserSelect]_vars

(***************************************************************************)
(* Specification SpecCron: GET /api/cron/check-actions.  Runs of the       *)
(* handler start one after the other and may overlap; each run moves from  *)
(* one GitHub, database or Slack call to the next, and GitHub changes in   *)
(* between.  A pull request with its reason is the key                     *)
(* `${pr_id}-${reason}`; a row of actionable_pr_states is [id, key,        *)
(* notified], notified telling that notified_at is set.  Pull request 7 is *)
(* assigned to the user and labelled review_ready, and is actionable until *)
(* the user has reviewed it; pull request 8 is the user's own and labelled *)
(* fix_needed.                                                             *)
(***************************************************************************)
Keys == {"7-review_ready", "8-fix_needed"}

(* GitHub: a pull request gets or loses the label (or is opened or closed) *)
(* that makes its pair, or the user's review of pull request 7 is          *)
(* submitted or dismissed                                                  *)
GithubChanges ==
    /\ \/ /\ \E key \in Keys :
                githubActionable' = IF key \in githubActionable
                                    THEN githubActionable \ {key}
                                    ELSE githubActionable \cup {key}
          /\ UNCHANGED githubReviewed
       \/ /\ githubReviewed' = ~githubReviewed
          /\ UNCHANGED githubActionable
    /\ UNCHANGED <<actionable_pr_states, cronRun, slackNotifications, scopeVars,
                   dataVars, serverVars, clientVars, calendarVars, callVars, userVars>>

(* one step of run r to the position and the locals of next *)
CronStep(r, next) ==
    /\ cronRun' = [cronRun EXCEPT ![r] = next]
    /\ UNCHANGED <<githubActionable, githubReviewed, scopeVars, dataVars,
                   serverVars, clientVars, calendarVars, callVars, userVars>>

(* the run at its next awaited call: the loop of the fetch over the listed  *)
(* pull requests is followed by its return; the loop of the sync over       *)
(* currentPRs by the loop over keysToRemove and the return of               *)
(* syncActionablePRStates; the loop of markAsNotified by the response       *)
NextCall(run) ==
    LET keysToRemove == { row.key : row \in run.storedMap } \ run.currentPRs
    IN  IF run.todo # {} THEN run
        ELSE IF run.pc = "listed" THEN [run EXCEPT !.pc = "fetched"]
        ELSE IF run.pc = "syncing"
        THEN IF keysToRemove = {} THEN [run EXCEPT !.pc = "synced"]
             ELSE [run EXCEPT !.pc = "removing", !.todo = keysToRemove]
        ELSE IF run.pc = "removing" THEN [run EXCEPT !.pc = "synced"]
        ELSE IF run.pc = "marking" THEN [run EXCEPT !.pc = "done"]
        ELSE run

(* GET up to the answer of getAuthenticatedUser, the first call of         *)
(* fetchActionablePullRequests: the fetch goes on to list the pull         *)
(* requests; or GITHUB_PAT is not set or the call fails, the fetch returns *)
(* its error and GET responds 500                                          *)
CronGet(r) ==
    /\ cronRun[r].pc = "idle"
    /\ \A q \in 1..(r - 1) : cronRun[q].pc # "idle"
    /\ \E after \in {{ q \in 1..MaxCronRuns : cronRun[q].pc = "done" }} :
          \/ CronStep(r, [cronRun[r] EXCEPT !.pc = "listing", !.after = after])
          \/ CronStep(r, [cronRun[r] EXCEPT !.pc = "done", !.after = after])
    /\ UNCHANGED <<actionable_pr_states, slackNotifications>>

(* fetchActionablePullRequests up to the answer of getOpenPullRequests for *)
(* the monitored repository: the open pull requests with their labels as   *)
(* they are now; or the call fails, is logged, the repository is skipped   *)
(* and the fetch returns no pull request and no error                      *)
getOpenPullRequests(r) ==
    /\ cronRun[r].pc = "listing"
    /\ \/ CronStep(r, NextCall([cronRun[r] EXCEPT !.pc = "listed",
                                                   !.todo = githubActionable]))
       \/ CronStep(r, [cronRun[r] EXCEPT !.pc = "fetched"])
    /\ UNCHANGED <<actionable_pr_states, slackNotifications>>

(* one turn of the loop of fetchActionablePullRequests over the listed     *)
(* pull requests, in the order of the list (last updated first).  The turn *)
(* reads the reviews as they are now, or the call fails, is logged and the *)
(* reviews are taken to be none.  Pull request 7, listed with review_ready, *)
(* is pushed unless the reviews read have one of the user; pull request 8, *)
(* listed with fix_needed, is pushed whatever the reviews.  The calls for   *)
(* the details and the review comments that follow in the turn, and their  *)
(* failures, leave the pair as it is.                                      *)
getPullRequestReviews(r) ==
    /\ cronRun[r].pc = "listed"
    /\ \E key \in cronRun[r].todo :
       \E userHasReviewed \in (IF key = "7-review_ready"
                                THEN {githubReviewed, FALSE} ELSE {FALSE}) :
          CronStep(r, NextCall([cronRun[r] EXCEPT
                                  !.todo = cronRun[r].todo \ {key},
                                  !.currentPRs = IF userHasReviewed
                                                 THEN cronRun[r].currentPRs
                                                 ELSE cronRun[r].currentPRs \cup {key}]))
    /\ UNCHANGED <<actionable_pr_states, slackNotifications>>

(* the maps storedMap can be after the select: one stored row for each key *)
StoredMaps(rows) ==
    { m \in SUBSET rows :
        /\ \A row \in rows : \E kept \in m : kept.key = row.key
        /\ \A a, b \in m : a.key = b.key => a = b }

(* the pair of keys whose pull request was created first: the fetch        *)
(* returns the pull requests sorted by created_at, 7 before 8              *)
CreatedFirst(keys) == IF "7-review_ready" \in keys THEN "7-review_ready" ELSE "8-fix_needed"

(* syncActionablePRStates up to storedMap: the select of all stored rows,  *)
(* or its error, which GET answers with 500                                *)
SelectStoredStates(r) ==
    /\ cronRun[r].pc = "fetched"
    /\ \/ \E storedMap \in StoredMaps(actionable_pr_states) :
             CronStep(r, NextCall([cronRun[r] EXCEPT !.pc = "syncing",
                                                       !.storedMap = storedMap,
                                                       !.todo = cronRun[r].currentPRs]))
       \/ CronStep(r, [cronRun[r] EXCEPT !.pc = "done"])
    /\ UNCHANGED <<actionable_pr_states, slackNotifications>>

(* one turn of the loop of syncActionablePRStates over currentPRs, to the  *)
(* answer of its insert or update.  A pull request without a row in        *)
(* storedMap is pushed to newPRs and inserted: the insert stores a row, or *)
(* fails, is logged and stores nothing, and the key stays in newPRs; an    *)
(* insert of a key that has a row by now adds a second row or is refused,  *)
(* as the table's constraints decide.  A pull request with a row has its   *)
(* last_seen_at and title refreshed.                                       *)
syncActionablePRStates(r) ==
    /\ cronRun[r].pc = "syncing"
    /\ \E key \in {CreatedFirst(cronRun[r].todo)} :
          IF \A row \in cronRun[r].storedMap : row.key # key
          THEN /\ \/ actionable_pr_states' = actionable_pr_states
                          \cup {[id |-> <<r, key>>, key |-> key, notified |-> FALSE]}
                  \/ UNCHANGED actionable_pr_states
               /\ CronStep(r, NextCall([cronRun[r] EXCEPT
                                          !.newPRs = cronRun[r].newPRs \cup {key},
                                          !.todo = cronRun[r].todo \ {key}]))
          ELSE /\ UNCHANGED actionable_pr_states
               /\ CronStep(r, NextCall([cronRun[r] EXCEPT !.todo = cronRun[r].todo \ {key}]))
    /\ UNCHANGED slackNotifications

(* one turn of the loop of syncActionablePRStates over keysToRemove, in    *)
(* the order the select listed the rows: the row of storedMap is deleted   *)
(* by its id and counted, or the delete fails, is logged and the row stays *)
removeStaleState(r) ==
    /\ cronRun[r].pc = "removing"
    /\ \E key \in cronRun[r].todo :
       \E state \in { row \in cronRun[r].storedMap : row.key = key } :
          \/ /\ actionable_pr_states' =
                   { row \in actionable_pr_states : row.id # state.id }
             /\ CronStep(r, NextCall([cronRun[r] EXCEPT
                                        !.todo = cronRun[r].todo \ {key},
                                        !.removedCount = cronRun[r].removedCount + 1]))
          \/ /\ UNCHANGED actionable_pr_states
             /\ CronStep(r, NextCall([cronRun[r] EXCEPT !.todo = cronRun[r].todo \ {key}]))
    /\ UNCHANGED slackNotifications

(* GET after the sync: nothing new and the run responds; or                *)
(* sendSlackNotification(newPRs) succeeds, or fails and the run responds   *)
sendSlackNotification(r) ==
    /\ cronRun[r].pc = "synced"
    /\ IF cronRun[r].newPRs = {}
       THEN /\ CronStep(r, [cronRun[r] EXCEPT !.pc = "done"])
            /\ UNCHANGED slackNotifications
       ELSE \/ /\ slackNotifications' = Append(slackNotifications, cronRun[r].newPRs)
               /\ CronStep(r, [cronRun[r] EXCEPT !.pc = "marking",
                                                  !.slackResult = "success",
                                                  !.todo = cronRun[r].newPRs])
            \/ /\ CronStep(r, [cronRun[r] EXCEPT !.pc = "done", !.slackResult = "failed"])
               /\ UNCHANGED slackNotifications
    /\ UNCHANGED actionable_pr_states

(* one turn of the loop of markAsNotified(prIds, reasons): notified_at is  *)
(* set on every row of the pair, or the update fails, is logged and the    *)
(* rows stay as they are; after the last pair the run responds             *)
markAsNotified(r) ==
    /\ cronRun[r].pc = "marking"
    /\ \E key \in {CreatedFirst(cronRun[r].todo)} :
          /\ \/ actionable_pr_states' =
                   { IF row.key = key THEN [row EXCEPT !.notified = TRUE] ELSE row :
                       row \in actionable_pr_states }
             \/ UNCHANGED actionable_pr_states
          /\ CronStep(r, NextCall([cronRun[r] EXCEPT !.todo = cronRun[r].todo \ {key}]))
    /\ UNCHANGED slackNotifications

CronInit ==
    /\ actionablePRs = <<>>
    /\ linearIssues = <<>>
    /\ ServerIdle
    /\ ClientIdle
    /\ ScopeIdle
    /\ CalendarIdle
    /\ UserIdle
    /\ CronIdle
    /\ CallIdle

SpecCron ==
    /\ CronInit
    /\ [][\/ GithubChanges
          \/ \E r \in 1..MaxCronRuns :
                \/ CronGet(r)
                \/ getOpenPullRequests(r)
                \/ getPullRequestReviews(r)
                \/ SelectStoredStates(r)
                \/ syncActionablePRStates(r)
                \/ removeStaleState(r)
                \/ sendSlackNotification(r)
                \/ markAsNotified(r)]_vars

(***************************************************************************)
(* Specification SpecCombine: combineActionableItems applied to the pull   *)
(* requests and issues of a workspace that has draft pull requests and     *)
(* issues in every workflow state.                                         *)
(***************************************************************************)
(* the pull requests of that workspace: the second one is a draft *)
WorkflowPRCatalogue ==
    << PRCatalogue[1], [PRCatalogue[2] EXCEPT !.pr.draft = TRUE] >>

(* its issues: S1 in progress, S2 canceled, S3 stale (a canceled state     *)
(* named Stale), S4 in review and blocked by another issue, S5 blocked,    *)
(* S6 canceled and attached to pull request 1, S7 attached to pull request *)
(* 2, S8 urgent and attached to pull request 1                             *)
WorkflowIssueCatalogue ==
    LET issue(id, identifier, priority, label, name, type, attachment, blocked) ==
            [id |-> id, identifier |-> identifier, priority |-> priority,
             priorityLabel |-> label, stateName |-> name, stateType |-> type,
             attachment |-> attachment, blockedByRelation |-> blocked]
    IN  << issue("S1", "OPS-1", 2, "High", "In Progress", "started", 0, FALSE),
           issue("S2", "OPS-2", 3, "Medium", "Canceled", "canceled", 0, FALSE),
           issue("S3", "OPS-3", 3, "Medium", "Stale", "canceled", 0, FALSE),
           issue("S4", "OPS-4", 2, "High", "In Review", "started", 0, TRUE),
           issue("S5", "OPS-5", 4, "Low", "Blocked", "started", 0, FALSE),
           issue("S6", "OPS-6", 1, "Urgent", "Canceled", "canceled", 1, FALSE),
           issue("S7", "OPS-7", 2, "High", "In Progress", "started", 2, FALSE),
           issue("S8", "OPS-8", 1, "Urgent", "Todo", "unstarted", 1, FALSE) >>

(* what the two fetches return: the oldest pull requests and at most       *)
(* MaxIssues of the issues                                                 *)
WorkflowPRs == { SubSeq(WorkflowPRCatalogue, 1, n) : n \in 0..Len(WorkflowPRCatalogue) }

WorkflowIssues ==
    { Pick(WorkflowIssueCatalogue, idx, 1) :
        idx \in { x \in SUBSET (1..Len(WorkflowIssueCatalogue)) :
                    Cardinality(x) <= MaxIssues } }

CombineInit ==
    /\ actionablePRs = <<>>
    /\ linearIssues = <<>>
    /\ ServerIdle
    /\ ClientIdle
    /\ ScopeIdle
    /\ CalendarIdle
    /\ UserIdle
    /\ CronIdle
    /\ \E prs \in WorkflowPRs : \E issues \in WorkflowIssues :
          callArgs = [prs |-> prs, issues |-> issues]
    /\ callResult = <<>>
    /\ callDone = FALSE

CallCombineActionableItems ==
    /\ ~callDone
    /\ callResult' = combineActionableItems(callArgs.prs, callArgs.issues)
    /\ callDone' = TRUE
    /\ UNCHANGED <<callArgs, userVars, cronVars, scopeVars, dataVars, serverVars, clientVars, calendarVars>>

SpecCombine == CombineInit /\ [][CallCombineActionableItems]_vars

(***************************************************************************)
(* Specification SpecRequest: the Dashboard up to its planning request,    *)
(* for a workspace with items in every workflow state: the calendar is     *)
(* fetched, meetings are selected, items are excluded and generateDailyPlan *)
(* sends the request.                                                      *)
(***************************************************************************)
(* fetchCalendarEvents: the events arrive, none on a day without events or *)
(* when the route answers with an error, and the meetings the user         *)
(* accepted or owns are selected; or the fetch throws and the events are   *)
(* cleared, the selection left as it is                                    *)
fetchCalendarEvents ==
    /\ \/ \E n \in 0..Len(CalendarCatalogue) :
            \E events \in {SubSeq(CalendarCatalogue, 1, n)} :
               /\ calendarEvents' = events
               /\ selectedEventIds' =
                     { events[i].id :
                         i \in { j \in 1..n :
                                   /\ ~events[j].isAllDay
                                   /\ events[j].responseStatus \in {"accepted", ""} } }
       \/ /\ calendarEvents' = <<>>
          /\ UNCHANGED selectedEventIds
    /\ UNCHANGED <<dataVars, serverVars, clientVars, scopeVars, callVars, userVars, cronVars>>

(* toggleCalendarEvent(eventId), from the checkbox of a meeting the modal  *)
(* lists: the events that are not all-day                                  *)
toggleCalendarEvent ==
    /\ \E i \in 1..Len(calendarEvents) :
          /\ ~calendarEvents[i].isAllDay
          /\ selectedEventIds' =
                IF calendarEvents[i].id \in selectedEventIds
                THEN selectedEventIds \ {calendarEvents[i].id}
                ELSE selectedEventIds \cup {calendarEvents[i].id}
    /\ UNCHANGED <<calendarEvents, dataVars, serverVars, clientVars, scopeVars, callVars, userVars, cronVars>>

(* toggleExcludeItem(itemId), from the row of an active item *)
toggleExcludeItem ==
    /\ \E itemId \in ItemIds(ActiveItems(actionablePRs, linearIssues)) :
          excludedItemIds' =
              IF itemId \in excludedItemIds
              THEN excludedItemIds \ {itemId}
              ELSE excludedItemIds \cup {itemId}
    /\ UNCHANGED <<itemOrder, customHourEstimates, dailyPlanItems, dailyPlanTotal,
                   dailyPlanMaxHours, planRuns, dataVars, calendarVars, serverVars,
                   scopeVars, callVars, userVars, cronVars>>

RequestInit ==
    /\ actionablePRs \in WorkflowPRs
    /\ linearIssues \in WorkflowIssues
    /\ ServerIdle
    /\ ClientIdle
    /\ ScopeIdle
    /\ CalendarIdle
    /\ UserIdle
    /\ CronIdle
    /\ CallIdle

SpecRequest ==
    /\ RequestInit
    /\ [][\/ fetchCalendarEvents
          \/ toggleCalendarEvent
          \/ toggleExcludeItem
          \/ setCustomHours
          \/ generateDailyPlan]_vars

(***************************************************************************)
(* Specification SpecScope: scopeToWorkday applied to every item list of   *)
(* at most MaxLen items.  An item is [id, hours]; its id is its position   *)
(* in the input, so ids are unique.                                        *)
(***************************************************************************)
ScopeInputs(n) ==
    { [i \in 1..n |-> [id |-> i, hours |-> f[i]]] : f \in [1..n -> ScopeHours] }

ScopeInit ==
    /\ actionablePRs = <<>>
    /\ linearIssues = <<>>
    /\ ServerIdle
    /\ ClientIdle
    /\ CalendarIdle
    /\ UserIdle
    /\ CronIdle
    /\ CallIdle
    /\ \E n \in 0..MaxLen : scopeItems \in ScopeInputs(n)
    /\ scopeMaxHours \in ScopeBudgets
    /\ scopeResult = NoResult
    /\ scopeCalled = FALSE

CallScope ==
    /\ ~scopeCalled
    /\ scopeResult' = scopeToWorkday(scopeItems, scopeMaxHours)
    /\ scopeCalled' = TRUE
    /\ UNCHANGED <<scopeItems, scopeMaxHours, dataVars, calendarVars, callVars, userVars, cronVars, serverVars, clientVars>>

ScopeNext == CallScope

SpecScope == ScopeInit /\ [][ScopeNext]_vars

(***************************************************************************)
(* Specification SpecCategory: getCategoryKey applied to one item.  Of an  *)
(* item the function reads sortPriority, 0 when the item has none, and the *)
(* priority of its Linear issue, 0 when it has no issue.                   *)
(***************************************************************************)
(* the inputs: sort priorities at and around the edges of the bands 0 to  *)
(* 5, the 999 of the fallback, a negative one and 0 for an item without    *)
(* sortPriority; Linear priorities 0 none, 1 urgent, 2 high, 3 medium,     *)
(* 4 low and a value Linear does not use                                   *)
CategoryInputs ==
    { [sortPriority |-> sp, linearIssue |-> [priority |-> p]] :
        sp \in { -50, 0, 50, 99, 100, 101, 104, 199, 200, 299, 300, 301, 302,
                 303, 304, 399, 400, 401, 404, 499, 500, 999 },
        p \in 0..5 }

CategoryInit ==
    /\ actionablePRs = <<>>
    /\ linearIssues = <<>>
    /\ ServerIdle
    /\ ClientIdle
    /\ ScopeIdle
    /\ CalendarIdle
    /\ UserIdle
    /\ CronIdle
    /\ callArgs \in CategoryInputs
    /\ callResult = <<>>
    /\ callDone = FALSE

CallGetCategoryKey ==
    /\ ~callDone
    /\ callResult' = getCategoryKey(callArgs)
    /\ callDone' = TRUE
    /\ UNCHANGED <<callArgs, userVars, cronVars, scopeVars, dataVars, serverVars, clientVars, calendarVars>>

SpecCategory == CategoryInit /\ [][CallGetCategoryKey]_vars

(***************************************************************************)
(* Specification SpecEstimate: estimateEffort applied to the task items of *)
(* the active items, under every outcome of the call of the oracle.        *)
(***************************************************************************)
(* the outcomes: no API key, the four failures of the call, and a parsed   *)
(* answer that has entries for any subset of the ids of the items; the     *)
(* entries of any subset of these lack hours (or carry null), and those of *)
(* any subset lack reasoning                                               *)
EstimateOutcomes(items) ==
    LET ids == { items[i].id : i \in 1..Len(items) }
        entry(h, hasHours, hasReasoning) ==
            [hours |-> IF hasHours THEN <<h>> ELSE Null,
             reasoning |-> IF hasReasoning
                           THEN <<Reasoning("oracle", 0, 0)>> ELSE Null]
    IN
    { [kind |-> k] :
        k \in {"noKey", "httpError", "emptyContent", "unparseable", "thrown"} }
    \cup
    UNION { { [kind |-> "ok",
               estimates |-> [id \in answered |->
                                entry(hours[id], id \notin noHours,
                                      id \notin noReasoning)]] :
                noHours \in SUBSET answered, noReasoning \in SUBSET answered } :
            <<answered, hours>> \in
                (SUBSET ids) \X
                { [id \in ids |-> 16], [id \in ids |-> MixedHours[id]] } }

EstimateInit ==
    /\ DataInit
    /\ ServerIdle
    /\ ClientIdle
    /\ ScopeIdle
    /\ CalendarIdle
    /\ UserIdle
    /\ CronIdle
    /\ \E items \in {Map(ActiveItems(actionablePRs, linearIssues), ToTaskItem)} :
       \E outcome \in EstimateOutcomes(items) :
          callArgs = [items |-> items, outcome |-> outcome]
    /\ callResult = <<>>
    /\ callDone = FALSE

CallEstimateEffort ==
    /\ ~callDone
    /\ callResult' = estimateEffort(callArgs.items, callArgs.outcome)
    /\ callDone' = TRUE
    /\ UNCHANGED <<callArgs, userVars, cronVars, scopeVars, dataVars, serverVars, clientVars, calendarVars>>

SpecEstimate == EstimateInit /\ [][CallEstimateEffort]_vars

(***************************************************************************)
(* Properties of scopeToWorkday.                                           *)
(***************************************************************************)
AllPositive(s) == \A i \in 1..Len(s) : s[i].hours > 0

(* the index of the first item whose inclusion pushes the running total    *)
(* of the list past maxHours; Len(s) when there is none                    *)
FirstPast(s, maxHours) ==
    IF \E k \in 1..Len(s) : SumHours(s, k) > maxHours
    THEN CHOOSE k \in 1..Len(s) :
            /\ SumHours(s, k) > maxHours
            /\ \A j \in 1..(k - 1) : SumHours(s, j) <= maxHours
    ELSE Len(s)

(* C1: for every list of items with positive hours and every maxHours, the *)
(* result of scopeToWorkday is the prefix of the input up to and including *)
(* the first item whose inclusion pushes the running total past maxHours,  *)
(* every later item is excluded, and totalHours is the sum of the prefix.  *)
C1_ContiguousPrefix ==
    (scopeCalled /\ AllPositive(scopeItems)) =>
        LET k == FirstPast(scopeItems, scopeMaxHours) IN
        /\ scopeResult.items = SubSeq(scopeItems, 1, k)
        /\ scopeResult.totalHours = SumHours(scopeItems, k)

(* C2: for every non-empty list of items with positive hours and every     *)
(* maxHours > 0, scopeToWorkday selects at least one item.                 *)
C2_NonEmpty ==
    (scopeCalled /\ Len(scopeItems) > 0 /\ AllPositive(scopeItems) /\ scopeMaxHours > 0)
        => Len(scopeResult.items) >= 1

(* the first item alone exceeds the budget and is selected all the same *)
C2_Witness ==
    /\ scopeCalled
    /\ Len(scopeItems) > 1
    /\ AllPositive(scopeItems)
    /\ scopeItems[1].hours > scopeMaxHours
    /\ scopeResult.items = <<scopeItems[1]>>

(* C5: in the result of scopeToWorkday the running total after a selected  *)
(* item is at most maxHours for every selected item but the overflow item, *)
(* and an overflow item is the last selected item: every item before it    *)
(* (every item, when none overflows) stays within maxHours.                *)
C5_RunningTotalWithinBudget ==
    scopeCalled =>
        \A k \in 1..Len(scopeResult.items) :
            SumHours(scopeResult.items, k) > scopeMaxHours
                => k = Len(scopeResult.items)

(* several items are selected and their total reaches the budget exactly *)
C5_Witness ==
    /\ scopeCalled
    /\ AllPositive(scopeItems)
    /\ Len(scopeResult.items) >= 3
    /\ Len(scopeResult.items) < Len(scopeItems)
    /\ scopeResult.totalHours = scopeMaxHours

(* the positions of the input that scopeToWorkday selected: the ids of the *)
(* returned items, an id being the position of the item in the input       *)
SelectedPositions == { scopeResult.items[k].id : k \in 1..Len(scopeResult.items) }

(* C25: for every input, the items scopeToWorkday returns are items of the *)
(* input in their input order, none twice and none invented, and the       *)
(* returned totalHours is the sum of the hours of the returned items.      *)
C25_SubsequenceWithItsTotal ==
    scopeCalled =>
        /\ \A k \in 1..Len(scopeResult.items) :
              /\ scopeResult.items[k].id \in 1..Len(scopeItems)
              /\ scopeResult.items[k] = scopeItems[scopeResult.items[k].id]
        /\ \A k, l \in 1..Len(scopeResult.items) :
              k < l => scopeResult.items[k].id < scopeResult.items[l].id
        /\ scopeResult.totalHours = SumHours(scopeResult.items, Len(scopeResult.items))

(* some but not all items are returned, an item of the input has hours     *)
(* that are not positive, and the total returned is over the budget        *)
C25_Witness ==
    /\ scopeCalled
    /\ Len(scopeResult.items) >= 1
    /\ Len(scopeResult.items) < Len(scopeItems)
    /\ scopeResult.totalHours > scopeMaxHours
    /\ \E i \in 1..Len(scopeItems) : scopeItems[i].hours <= 0
    /\ scopeResult.totalHours = SumHours(scopeResult.items, Len(scopeResult.items))

(* the hours of the selected items that precede position i of the input *)
SelectedHoursBefore(i) ==
    SumHours(scopeResult.items,
             Cardinality({ p \in SelectedPositions : p < i }))

(* C26: with positive hours, every item scopeToWorkday does not select     *)
(* would push the hours of the selected items before it past maxHours; an  *)
(* item that does not fit is skipped and a later one that fits is taken.   *)
C26_GreedyMaximal ==
    (scopeCalled /\ AllPositive(scopeItems)) =>
        \A i \in 1..Len(scopeItems) :
            i \notin SelectedPositions =>
                SelectedHoursBefore(i) + scopeItems[i].hours > scopeMaxHours

(* an item that does not fit is skipped and a later item is selected *)
C26_Witness ==
    /\ scopeCalled
    /\ AllPositive(scopeItems)
    /\ \E i, j \in 1..Len(scopeItems) :
          /\ i < j
          /\ i \notin SelectedPositions
          /\ j \in SelectedPositions
          /\ SelectedHoursBefore(i) + scopeItems[i].hours > scopeMaxHours

(* C27: with positive hours, scopeToWorkday returns a total above maxHours *)
(* only when it selected one item, the first of the input; otherwise the   *)
(* total is at most maxHours.                                              *)
C27_OverBudgetOnlyByFirstItem ==
    (scopeCalled /\ AllPositive(scopeItems)) =>
        (scopeResult.totalHours > scopeMaxHours =>
            /\ Len(scopeResult.items) = 1
            /\ scopeResult.items[1] = scopeItems[1])

(* the first of several items is over the budget and is returned alone,    *)
(* although a later item would fit                                         *)
C27_Witness ==
    /\ scopeCalled
    /\ AllPositive(scopeItems)
    /\ scopeResult.totalHours > scopeMaxHours
    /\ SelectedPositions = {1}
    /\ \E i \in 2..Len(scopeItems) : scopeItems[i].hours <= scopeMaxHours

(***************************************************************************)
(* Properties of the plan POST /api/daily-plan returns.                    *)
(***************************************************************************)
Responded == pc = "responded" /\ response.status = 200

(* the positions of the returned items that are flagged isOverflow *)
OverflowPositions ==
    { i \in 1..Len(response.items) : response.items[i].isOverflow }

(* C3: in every plan the handler returns, at most one item has isOverflow  *)
(* = TRUE, and when there is one it is the last item of the returned       *)
(* sequence.                                                               *)
C3_SingleOverflowLast ==
    Responded =>
        /\ Cardinality(OverflowPositions) <= 1
        /\ OverflowPositions # {} => OverflowPositions = {Len(response.items)}

(* a plan over its budget is returned for a request of several items *)
C3_Witness ==
    /\ Responded
    /\ Len(request.items) >= 2
    /\ Len(response.items) >= 1
    /\ response.isOverTime
    /\ Cardinality(OverflowPositions) <= 1

(* C4: a returned item has isOverflow = TRUE if and only if it is the      *)
(* first item, in scoping order, whose inclusion pushes the running total  *)
(* of hours past maxHours; that item is returned, so a plan whose scoping  *)
(* order goes past maxHours has an item with isOverflow = TRUE.            *)
C4_OverflowIffFirstPast ==
    (Responded /\ Len(request.items) > 0 /\ AllPositive(sortedForScoping)) =>
        LET k == FirstPast(sortedForScoping, response.maxHours)
            past == SumHours(sortedForScoping, k) > response.maxHours
        IN  /\ \A i \in 1..Len(response.items) :
                 response.items[i].isOverflow <=>
                    (past /\ response.items[i].taskId = sortedForScoping[k].id)
            /\ past => \E i \in 1..Len(response.items) : response.items[i].isOverflow

(* the place of a returned item's category in CATEGORY_ORDER *)
CategoryOf(item) == CategoryIndex(getCategoryKey(item))

(* C6: for any two returned items a and b, if a's category comes earlier   *)
(* than b's in the 10-category order then a appears before b, whatever     *)
(* prioritizedIds are supplied.                                            *)
C6_CategoryOrder ==
    Responded =>
        \A i, j \in 1..Len(response.items) :
            CategoryOf(response.items[i]) < CategoryOf(response.items[j]) => i < j

(* C7: an item with a positive customHours entry v under its id is         *)
(* returned with hours = v and reasoning "Custom estimate: {v}h", whatever *)
(* the estimate was; v is its hours in the scoping order and the total of  *)
(* the plan is the sum of the returned hours.                              *)
HasPositiveEntry(item) ==
    /\ ItemId(item) \in DOMAIN request.customHours
    /\ request.customHours[ItemId(item)] > 0

C7_OverridePrecedence ==
    Responded =>
        /\ \A i \in 1..Len(response.items) :
              HasPositiveEntry(response.items[i]) =>
                 /\ response.items[i].hours = request.customHours[ItemId(response.items[i])]
                 /\ response.items[i].reasoning =
                       Reasoning("Custom estimate: {a}h",
                                 request.customHours[ItemId(response.items[i])], 0)
        /\ \A i \in 1..Len(sortedForScoping) :
              HasPositiveEntry(FindOriginal(request.items, sortedForScoping[i].id)) =>
                 sortedForScoping[i].hours =
                    request.customHours[ItemId(FindOriginal(request.items, sortedForScoping[i].id))]
        /\ response.totalHours = SumHours(response.items, Len(response.items))

(* an overridden item is returned with the override, which differs from    *)
(* the estimate, next to an item that keeps its estimate                   *)
C7_Witness ==
    /\ Responded
    /\ \E i, j \in 1..Len(response.items) :
          /\ HasPositiveEntry(response.items[i])
          /\ response.items[i].hours = request.customHours[ItemId(response.items[i])]
          /\ \E e \in Range(estimated) :
                e.id = response.items[i].taskId /\ e.hours # response.items[i].hours
          /\ ~HasPositiveEntry(response.items[j])

(* C8: a customHours entry that is zero or negative is no override: an     *)
(* item whose only entry is such a value is returned with the hours and    *)
(* the reasoning of its estimate, and the request does not fail.           *)
HasInvalidEntryOnly(item) ==
    /\ ItemId(item) \in DOMAIN request.customHours
    /\ request.customHours[ItemId(item)] <= 0
    /\ item.linearIssue.id \notin DOMAIN request.customHours \ {ItemId(item)}

C8_InvalidOverrideIgnored ==
    pc = "responded" =>
        /\ response.status = 200
        /\ \A i \in 1..Len(response.items) :
              HasInvalidEntryOnly(response.items[i]) =>
                 \E e \in Range(estimated) :
                    /\ e.id = response.items[i].taskId
                    /\ e.hours = response.items[i].hours
                    /\ e.reasoning = response.items[i].reasoning

(***************************************************************************)
(* Properties of a planning run of the Dashboard.                          *)
(***************************************************************************)
(* the item of the request that an entry of sortedForScoping estimates *)
ScopedOriginal(i) == FindOriginal(request.items, sortedForScoping[i].id)

(* the custom order list the request carries for the category of an item *)
RequestOrderOf(item) == CategoryItemOrder(request.itemOrder, getCategoryKey(item))

(* C9: the budget scoper considers the non-pinned items of one category    *)
(* in the order of the custom order list the request carries for that      *)
(* category: an item with a smaller list index before an item with a       *)
(* larger one, and a listed item before an unlisted one.                   *)
C9_ScopingFollowsItemOrder ==
    (pc = "responded" /\ response.status = 200) =>
        \A i, j \in 1..Len(sortedForScoping) :
            LET a == ScopedOriginal(i)
                b == ScopedOriginal(j)
                aIndex == IndexOf(RequestOrderOf(a), ItemId(a))
                bIndex == IndexOf(RequestOrderOf(a), ItemId(b))
            IN  ( /\ getCategoryKey(a) = getCategoryKey(b)
                  /\ ItemId(a) \notin request.prioritizedIds
                  /\ ItemId(b) \notin request.prioritizedIds
                  /\ aIndex # -1
                  /\ (bIndex = -1 \/ aIndex < bIndex) ) => i < j

(* the items of a plan are in custom order inside each category *)
InCustomOrder(items, order) ==
    \A i, j \in 1..Len(items) :
        LET a == items[i]
            b == items[j]
            list == CategoryItemOrder(order, getCategoryKey(a))
            aIndex == IndexOf(list, ItemId(a))
            bIndex == IndexOf(list, ItemId(b))
        IN  getCategoryKey(a) = getCategoryKey(b) =>
               /\ (aIndex # -1 /\ bIndex # -1 /\ aIndex < bIndex) => i < j
               /\ (aIndex # -1 /\ bIndex = -1) => i < j
               /\ (aIndex = -1 /\ bIndex = -1 /\ a.sortPriority < b.sortPriority) => i < j

(* C10: in the plan generateDailyPlan stores, inside one category the      *)
(* items whose ids are in the custom order list of the category, as        *)
(* generateDailyPlan was called with it, appear in list order and before   *)
(* every item of the category that is not in the list, and the unlisted    *)
(* items appear in ascending sortPriority.                                 *)
C10_PlanInCustomOrder ==
    [][(pc = "responded" /\ pc' = "idle" /\ response.status = 200) =>
          /\ InCustomOrder(dailyPlanItems', request.itemOrder)
          /\ Len(dailyPlanItems') = Len(response.items)
          /\ Range(dailyPlanItems') = Range(response.items)]_vars

(* a stored plan in which the custom order decides: a listed item stands   *)
(* before an unlisted item of its category that has a smaller sortPriority *)
C10_Witness ==
    /\ planRuns > 0
    /\ pc = "idle"
    /\ InCustomOrder(dailyPlanItems, itemOrder)
    /\ \E i, j \in 1..Len(dailyPlanItems) :
          LET a == dailyPlanItems[i]
              b == dailyPlanItems[j]
              list == CategoryItemOrder(itemOrder, getCategoryKey(a))
          IN  /\ i < j
              /\ getCategoryKey(a) = getCategoryKey(b)
              /\ IndexOf(list, ItemId(a)) # -1
              /\ IndexOf(list, ItemId(b)) = -1
              /\ b.sortPriority < a.sortPriority

(***************************************************************************)
(* Properties of getCategoryKey.                                           *)
(***************************************************************************)
(* the band of an item: floor(sortPriority / 100), of 999 without one *)
Band(item) == (IF item.sortPriority = 0 THEN 999 ELSE item.sortPriority) \div 100

(* the level a Linear priority maps to: urgent and high to 1, medium to 2, *)
(* low to 3, anything else to 4                                            *)
PriorityLevel(priority) ==
    IF priority \in {1, 2} THEN 1
    ELSE IF priority = 3 THEN 2
    ELSE IF priority = 4 THEN 3
    ELSE 4

InProgressKeys ==
    << "inprogress-high", "inprogress-medium", "inprogress-low", "inprogress-none" >>

TodoKeys == << "todo-high", "todo-medium", "todo-low", "todo-none" >>

(* C11: getCategoryKey returns, for every item, one of the 10 category     *)
(* keys: urgent in band 1, pr in band 2, the inprogress-* key of the       *)
(* priority in band 3 and the todo-* key of the priority in every other    *)
(* band, the band of an item without sortPriority included; and each of    *)
(* the 10 keys is the key of some item.                                    *)
C11_CategoryKeyTotal ==
    /\ callDone =>
          /\ callResult \in Range(CATEGORY_ORDER)
          /\ callResult =
                IF Band(callArgs) = 1 THEN "urgent"
                ELSE IF Band(callArgs) = 2 THEN "pr"
                ELSE IF Band(callArgs) = 3
                     THEN InProgressKeys[PriorityLevel(callArgs.linearIssue.priority)]
                ELSE TodoKeys[PriorityLevel(callArgs.linearIssue.priority)]
    /\ \A key \in Range(CATEGORY_ORDER) :
          \E item \in CategoryInputs : getCategoryKey(item) = key

(* an urgent issue without sortPriority has been given the key todo-high *)
C11_Witness ==
    /\ callDone
    /\ callArgs.sortPriority = 0
    /\ callArgs.linearIssue.priority = 1
    /\ callResult = "todo-high"

(***************************************************************************)
(* Properties of estimateEffort.                                           *)
(***************************************************************************)
(* 0.5h, 1h, 2h, 4h and 8h *)
EffortValues == {1, 2, 4, 8, 16}

(* the oracle of the run is unavailable, or every hour value of its answer *)
(* is one of the five values                                               *)
OracleWithinValues ==
    callArgs.outcome.kind = "ok" =>
        \A id \in DOMAIN callArgs.outcome.estimates :
            callArgs.outcome.estimates[id].hours # Null =>
                callArgs.outcome.estimates[id].hours[1] \in EffortValues

(* C12: with an oracle that is unavailable or answers only with values of  *)
(* 0.5, 1, 2, 4, 8 hours, every item estimateEffort returns carries one of *)
(* these five values as its hours.                                         *)
C12_HoursInFixedSet ==
    (callDone /\ OracleWithinValues) =>
        \A i \in 1..Len(callResult) : callResult[i].hours \in EffortValues

(* the parsed answer of the oracle has an entry for the i-th item *)
Answered(i) ==
    /\ callArgs.outcome.kind = "ok"
    /\ callArgs.items[i].id \in DOMAIN callArgs.outcome.estimates

(* C13: in every outcome of the call of the oracle, estimateEffort returns *)
(* one estimated item per input item, in input order: the item with the    *)
(* hours and reasoning of the oracle when the parsed answer has an entry   *)
(* with its id, and with those of getDefaultEstimate otherwise.  An entry  *)
(* that has the id and lacks hours or reasoning refutes it: the item gets  *)
(* one field of the oracle and the other of getDefaultEstimate.            *)
C13_OneEstimatePerItem ==
    callDone =>
        /\ Len(callResult) = Len(callArgs.items)
        /\ \A i \in 1..Len(callResult) :
              /\ callResult[i].id = callArgs.items[i].id
              /\ callResult[i].type = callArgs.items[i].type
              /\ IF Answered(i)
                 THEN /\ <<callResult[i].hours>> =
                            callArgs.outcome.estimates[callArgs.items[i].id].hours
                      /\ <<callResult[i].reasoning>> =
                            callArgs.outcome.estimates[callArgs.items[i].id].reasoning
                 ELSE /\ callResult[i].hours =
                            getDefaultEstimate(callArgs.items[i]).hours
                      /\ callResult[i].reasoning =
                            getDefaultEstimate(callArgs.items[i]).reasoning

(***************************************************************************)
(* Progress of a planning run.                                             *)
(***************************************************************************)
(* C14: every planning run eventually returns a plan, also when the call   *)
(* of the oracle fails or never answers.                                   *)
C14_RunEventuallyReturns ==
    (pc = "received") ~> (pc = "responded" /\ response.status = 200)

(* the oracle is silent and the run of a request with items waits for it *)
C14_Witness == pc = "waiting" /\ Len(request.items) >= 1 /\ response = NoResponse

(***************************************************************************)
(* Properties of combineActionableItems and of the Dashboard's pools.      *)
(***************************************************************************)
(* the input issues and pull requests of the call, and its items *)
InputIssues == Range(callArgs.issues)

InputPRs == { callArgs.prs[i].pr : i \in 1..Len(callArgs.prs) }

(* the positions of the items that carry issue, of the given types *)
ItemsCarrying(issue, types) ==
    { i \in 1..Len(callResult) :
        callResult[i].type \in types /\ callResult[i].linearIssue = issue }

(* the canceled filter: a canceled issue whose state name is not stale *)
CanceledNotStale(issue) ==
    issue.stateType = "canceled" /\ ToLowerCase(issue.stateName) # "stale"

(* C15: every input issue that is neither carried by the item of an input  *)
(* pull request nor dropped by the canceled filter is the issue of exactly *)
(* one item of type linear, and every input pull request has exactly one   *)
(* item, of type pr_with_linear when it carries an issue and of type pr    *)
(* otherwise.                                                              *)
C15_NoIssueLost ==
    callDone =>
        /\ \A issue \in InputIssues :
              (ItemsCarrying(issue, {"pr_with_linear"}) = {} /\ ~CanceledNotStale(issue))
                  => Cardinality(ItemsCarrying(issue, {"linear"})) = 1
        /\ \A pr \in InputPRs :
              /\ Cardinality({ i \in 1..Len(callResult) : callResult[i].pr = pr }) = 1
              /\ \A i \in 1..Len(callResult) :
                    callResult[i].pr = pr =>
                        callResult[i].type =
                            IF callResult[i].linearIssue # NullIssue
                            THEN "pr_with_linear" ELSE "pr"

(* C16: no item of the result carries a canceled issue whose state name is *)
(* not stale, and an issue whose state name is stale is kept and flagged   *)
(* isStale.                                                                *)
C16_NoCanceledIssue ==
    callDone =>
        /\ \A i \in 1..Len(callResult) : ~CanceledNotStale(callResult[i].linearIssue)
        /\ \A issue \in InputIssues :
              ToLowerCase(issue.stateName) = "stale" =>
                  \E i \in 1..Len(callResult) :
                      callResult[i].linearIssue = issue /\ callResult[i].isStale

(* C18: every item of the result is listed in exactly one of the pools     *)
(* active, draft, in review, blocked and stale.                            *)
C18_PoolsPartition ==
    callDone =>
        \A i \in 1..Len(callResult) : Cardinality(PoolsOf(callResult[i])) = 1

(***************************************************************************)
(* Properties of the planning request of generateDailyPlan.                *)
(***************************************************************************)
(* this step is generateDailyPlan sending its request *)
RequestSent == pc = "idle" /\ pc' = "received"

(* C17: every item of a request that generateDailyPlan sends is neither    *)
(* stale, draft, in review nor blocked and its id is not excluded, and no  *)
(* request is sent when the Dashboard has no such item.                    *)
C17_OnlyActiveIncludedItemsSent ==
    [][/\ RequestSent =>
            \A i \in 1..Len(request'.items) :
                /\ ~request'.items[i].isStale
                /\ ~request'.items[i].isDraft
                /\ ~request'.items[i].isInReview
                /\ ~request'.items[i].isBlocked
                /\ ItemId(request'.items[i]) \notin excludedItemIds
       /\ (\A item \in Range(combineActionableItems(actionablePRs, linearIssues)) :
                \/ item.isStale \/ item.isDraft \/ item.isInReview \/ item.isBlocked
                \/ ItemId(item) \in excludedItemIds)
            => (request' = request /\ pc' = pc)]_vars

(* a request that leaves out an excluded active item, in a workspace that  *)
(* has an item that is not active                                          *)
C17_Witness ==
    /\ pc = "received"
    /\ Len(request.items) >= 1
    /\ Len(request.items) < Len(ActiveItems(actionablePRs, linearIssues))
    /\ Len(ActiveItems(actionablePRs, linearIssues)) <
           Len(combineActionableItems(actionablePRs, linearIssues))

(* the minutes of the selected events *)
SelectedMinutes ==
    LET RECURSIVE sum(_)
        sum(ids) ==
            IF ids = {} THEN 0
            ELSE LET i == CHOOSE j \in ids : TRUE
                 IN calendarEvents[i].durationMinutes + sum(ids \ {i})
    IN  sum({ i \in 1..Len(calendarEvents) : calendarEvents[i].id \in selectedEventIds })

(* C19: the maxHours of a request that generateDailyPlan sends is          *)
(* max(0.5, requested hours - total meeting hours), the total being the    *)
(* sum of durationMinutes / 60 over the selected events; it is never below *)
(* 0.5.  In half hours: max(1, hours - minutes / 30).                      *)
C19_MaxHoursLessMeetings ==
    [][RequestSent =>
          /\ \E hours \in HoursChoices :
                request'.maxHours =
                    IF hours * 30 - SelectedMinutes >= 30
                    THEN (hours * 30 - SelectedMinutes) \div 30
                    ELSE 1
          /\ request'.maxHours >= 1]_vars

(* a request sent with more meeting time selected than hours asked for:    *)
(* its maxHours is 0.5                                                     *)
C19_Witness ==
    /\ pc = "received"
    /\ planRuns = 1
    /\ request.maxHours = 1
    /\ \A hours \in HoursChoices : SelectedMinutes > hours * 30

(***************************************************************************)
(* The outcome of POST /api/daily-plan for its caller.                     *)
(***************************************************************************)
(* C20: every response of the handler is a plan, with items and            *)
(* totalHours, and none is an error outcome, whatever the request.         *)
C20_AlwaysAPlan ==
    pc = "responded" =>
        /\ response.status = 200
        /\ {"items", "totalHours"} \subseteq DOMAIN response

(* C21: a request with an empty or missing item list is answered with a    *)
(* plan of zero items and totalHours 0, without an error, and the handler  *)
(* gets there without calling the oracle.                                  *)
C21_EmptyRequestEmptyPlan ==
    [][(pc = "received" /\ Len(request.items) = 0) =>
          /\ pc' = "responded"
          /\ response'.status = 200
          /\ response'.items = <<>>
          /\ response'.totalHours = 0
          /\ estimated' = <<>>]_vars

(* a request without items has been answered with the empty plan *)
C21_Witness ==
    /\ pc = "responded"
    /\ request.items = <<>>
    /\ response.status = 200
    /\ response.items = <<>>
    /\ response.totalHours = 0

(***************************************************************************)
(* Properties of handleDragEnd.                                            *)
(***************************************************************************)
(* the ids of the active items of a category *)
CategoryIds(category) ==
    { ItemId(item) :
        item \in { i \in Range(ActiveItems(actionablePRs, linearIssues)) :
                     getCategoryKey(i) = category } }

(* C23: a drag changes itemOrder only inside one category: the list of     *)
(* that category becomes a permutation of the ids of the category's items  *)
(* and the list of every other category stays as it is; a drag onto an     *)
(* item of another category changes nothing.                               *)
C23_DragStaysInCategory ==
    [][itemOrder' # itemOrder =>
          \E category \in Range(CATEGORY_ORDER) :
              /\ DOMAIN itemOrder' = DOMAIN itemOrder \cup {category}
              /\ Len(itemOrder'[category]) = Cardinality(CategoryIds(category))
              /\ Range(itemOrder'[category]) = CategoryIds(category)
              /\ \A other \in DOMAIN itemOrder \ {category} :
                    itemOrder'[other] = itemOrder[other]]_vars

(* the two pull requests have been swapped by a drag, next to an urgent    *)
(* item and a stored order of the urgent category that is still there      *)
C23_Witness ==
    /\ "pr" \in DOMAIN itemOrder
    /\ itemOrder["pr"] = <<"2", "1">>
    /\ "urgent" \in DOMAIN itemOrder
    /\ itemOrder["urgent"] = <<"1", "L2">>
    /\ CategoryIds("urgent") # {}

(***************************************************************************)
(* Properties of the stored daily plan and of the user selector.           *)
(***************************************************************************)
(* the instants of the clock *)
Instants == 0..MaxClock

(* C24: a generated plan survives a reload: when the callback of           *)
(* generateDailyPlan has stored the plan (the storage took the write),     *)
(* loadDailyPlanFromStorage for the same user, at any time of the same     *)
(* calendar day, restores the items, the total hours, the budget and the   *)
(* last-run time just shown and the meetings that were selected for the    *)
(* plan.                                                                   *)
C24_PlanSurvivesReload ==
    [][(/\ pc = "responded" /\ response.status = 200 /\ pc' = "idle"
        /\ localStorage' # localStorage) =>
          \A today \in Instants :
              isSameDay(dailyPlanLastRun'[1], today) =>
                  LET stored == localStorage'[getDailyPlanKey(planClosure[1].selectedUser)]
                      loaded == loadDailyPlanFromStorage(stored, today)
                  IN  /\ loaded.dailyPlanItems = dailyPlanItems'
                      /\ loaded.dailyPlanTotal = dailyPlanTotal'
                      /\ loaded.dailyPlanMaxHours = dailyPlanMaxHours'
                      /\ loaded.dailyPlanLastRun = dailyPlanLastRun'
                      /\ SelectedMeetings(loaded.calendarEvents, loaded.selectedEventIds)
                            = planClosure[1].selectedMeetings]_vars

(* a plan with a meeting was stored at a time whose UTC day is not its     *)
(* local day, and the user, selected again later that day, sees it         *)
C24_Witness ==
    /\ localStorage[getDailyPlanKey(selectedUser)] # Null
    /\ dailyPlanItems # <<>>
    /\ dailyPlanItems = localStorage[getDailyPlanKey(selectedUser)][1].items
    /\ Len(localStorage[getDailyPlanKey(selectedUser)][1].meetings) = 1
    /\ Len(calendarEvents) = 1
    /\ dailyPlanLastRun # Null
    /\ clock > dailyPlanLastRun[1]
    /\ ~isSameDayUtc(dailyPlanLastRun[1], clock)

(* C28: the daily plan shown belongs to the selected user: when the user   *)
(* was switched while a planning request of the previous user was in       *)
(* flight, the callback that receives the late response leaves the plan    *)
(* shown, its total, its budget and its last-run time as they are.         *)
C28_PlanOfSelectedUser ==
    [][(/\ pc = "responded" /\ pc' = "idle"
        /\ planClosure # Null
        /\ planClosure[1].selectedUser # selectedUser) =>
          UNCHANGED <<dailyPlanItems, dailyPlanTotal, dailyPlanMaxHours,
                      dailyPlanLastRun>>]_vars

(***************************************************************************)
(* Properties of fetchUserData.                                            *)
(***************************************************************************)
(* C22: when exactly one of the two sources fails, its result carries an   *)
(* empty list and its error string to the Dashboard, the Dashboard holds   *)
(* an empty list for it and the items of the other source, and shows the   *)
(* combined items rather than an error.                                    *)
C22_OneSourceFails ==
    (userData # Null /\ ~actionableLoading) =>
        LET prData == userData[1].prData
            linearData == userData[1].linearData
        IN  /\ (prData.error # Null /\ linearData.error = Null) =>
                  /\ prData.actionablePRs = <<>>
                  /\ actionablePRs = <<>>
                  /\ linearIssues = linearData.issues
                  /\ actionableError = Null
                  /\ combineActionableItems(actionablePRs, linearIssues)
                        = combineActionableItems(<<>>, linearData.issues)
            /\ (prData.error = Null /\ linearData.error # Null) =>
                  /\ linearData.issues = <<>>
                  /\ linearIssues = <<>>
                  /\ actionablePRs = prData.actionablePRs
                  /\ actionableError = Null
                  /\ combineActionableItems(actionablePRs, linearIssues)
                        = combineActionableItems(prData.actionablePRs, <<>>)

(***************************************************************************)
(* Properties of the check-actions cron.                                   *)
(***************************************************************************)
(* run r has started and has not responded *)
InProgress(r) == cronRun[r].pc \notin {"idle", "done"}

(* C29: of two runs that overlap, at most one reports a pair as new,       *)
(* inserts it and notifies it: two runs in progress never hold the same    *)
(* pair in their newPRs.                                                   *)
C29_NewInOneRun ==
    \A a, b \in 1..MaxCronRuns :
        (a # b /\ InProgress(a) /\ InProgress(b)) =>
            cronRun[a].newPRs \cap cronRun[b].newPRs = {}

(* C30: a pair whose notification failed is not lost: when a run reported  *)
(* a pair as new and its sendSlackNotification failed, a run that started  *)
(* after that run had responded, finds the pair still actionable and has   *)
(* synced reports the pair as new, as long as no row of the pair has       *)
(* notified_at set.                                                        *)
C30_RetriedUntilNotified ==
    \A r \in 1..MaxCronRuns : \A q \in cronRun[r].after :
        (/\ cronRun[r].pc = "synced"
         /\ cronRun[q].slackResult = "failed") =>
            \A key \in cronRun[r].currentPRs \cap cronRun[q].newPRs :
                (\A row \in actionable_pr_states : row.key = key => ~row.notified)
                    => key \in cronRun[r].newPRs

====
